---- MODULE Spec2Model ----
(***************************************************************************)
(* Model of the in-memory store of src/models/redis.js (MemoryRedisClient) *)
(* and of the lease, lock and session primitives built on it.              *)
(*                                                                         *)
(* The five Maps of the client are the variables store, ttls, hashes,      *)
(* lists and zsets; a Map is a function whose DOMAIN is the set of keys it *)
(* holds.  Date.now() is the variable now (epoch time, in whole seconds).   *)
(* Primitive methods are operators over a record t of the five Maps that   *)
(* return [db |-> the Maps afterwards, ret |-> the returned value].        *)
(***************************************************************************)
EXTENDS Integers, Sequences, FiniteSets, TLC

VARIABLES store, ttls, hashes, lists, zsets, now, pre, last, granted, calls, held,
          isConnected, config, mapped, ledger, costs, reply, boot

\* the connection flag, the loaded configuration, the bookkeeping of the session and
\* usage callers, the value a reading call returned last and the run of the start
\* script; the lease and lock callers leave all of them alone
aux == <<isConnected, config, mapped, ledger, costs, reply, boot>>

vars == <<store, ttls, hashes, lists, zsets, now, pre, last, granted, calls, held, aux>>

\* ------------------------------------------------------------------ bounds
MaxTicks == 4
MaxConcTicks == 1
MaxMeterTicks == 3
MaxUsageCalls == 3
MaxCostCalls == 2
MaxCostTicks == 2
MaxSeqCostCalls == 3
MaxStatsCalls == 1
MaxListLen == 2
MaxStoreTicks == 1
MaxStoreCount == 2

\* ------------------------------------------------- configuration constants
DefaultLeaseSeconds == 300
CleanupGraceSeconds == 30
MinKeyTtlMs == 60000

\* Date.now() is kept in whole seconds: all instants and TTLs of the inputs below are
\* whole seconds, and 365 days of milliseconds do not fit the integers of the checker.
\* ToClock turns a millisecond quantity of the source into clock units, Seconds(s) is
\* the source's s * 1000.
MsPerTick == 1000
TicksPerSecond == 1000 \div MsPerTick
ToClock(ms) == ms \div MsPerTick
Seconds(s) == s * TicksPerSecond

\* the clock advances in steps of the cleanup grace period
StepMs == ToClock(CleanupGraceSeconds * 1000)

\* inputs: 0 stands for an omitted (null) leaseSeconds, both are falsy
LeaseChoices == {0, 30, 90}
ConcLeaseChoices == {30, 90}
Subjects == {"k1"}
RequestIds == {"r1", "r2"}
EmptyId == ""
LockKeys == {"lock:a1"}
Tokens == {"A", "B"}
TtlMsChoices == {0, 30000, 60000}
Callers == {"c1", "c2"}
Accounts == {"a1"}
\* the ttl parameter of setSessionAccountMapping left out (null)
NullTtl == -1
Sessions == {"s1"}
AccountIds == {"acc1", "acc2"}
\* ttl arguments in seconds (NullTtl: left out); 0 is passed to set() as it is
TtlArgs == {NullTtl, 0, 60, 90}
ThresholdChoices == {0, 1}
KeyIds == {"key1"}
Models == {"claude-3:latest", "us.anthropic.claude-3-v1:0"}
\* the numeric arguments of incrementTokenUsage: a request with input and output, one
\* with cache tokens that is flagged long-context, and one with the total only
CostAmounts == {1, 5}
UsageInputs ==
    {[tokens |-> 15, inputTokens |-> 10, outputTokens |-> 5, cacheCreateTokens |-> 0,
      cacheReadTokens |-> 0, ephemeral5mTokens |-> 0, ephemeral1hTokens |-> 0,
      isLongContextRequest |-> FALSE],
     [tokens |-> 8, inputTokens |-> 3, outputTokens |-> 2, cacheCreateTokens |-> 2,
      cacheReadTokens |-> 1, ephemeral5mTokens |-> 2, ephemeral1hTokens |-> 0,
      isLongContextRequest |-> TRUE],
     [tokens |-> 7, inputTokens |-> 0, outputTokens |-> 0, cacheCreateTokens |-> 0,
      cacheReadTokens |-> 0, ephemeral5mTokens |-> 0, ephemeral1hTokens |-> 0,
      isLongContextRequest |-> FALSE]}

\* null results: scores are epoch ms >= 0, stored strings are never "<null>"
\* timezone offsets in hours; set is FALSE when the configuration has no entry
ZoneChoices == {[offset |-> 0, set |-> FALSE], [offset |-> 0, set |-> TRUE],
                [offset |-> -5, set |-> TRUE], [offset |-> 8, set |-> TRUE],
                [offset |-> 9, set |-> TRUE]}

\* list keys, the values pushed in one lpush call, and the indices asked for
ListKeys == {"usage:records:key1"}
PushChoices == {<<"a">>, <<"b">>, <<"c", "d">>}
Indices == (0 - MaxListLen - 1)..(MaxListLen + 1)

\* command lines of the start script
Flags == {"--skip-lint", "-s", "--lint", "--help", "-h"}
ArgChoices == SUBSET Flags

\* script bodies handed to eval: the acquire, renew, release and lock-release procedures
\* as a caller words them, and a script eval does not know
Scripts ==
    {"ZREMRANGEBYSCORE ZADD ZCARD",
     "ZREMRANGEBYSCORE local exists = ZSCORE if exists then ZADD",
     "ZREM ZCARD",
     "if get KEYS[1] then del",
     "PING"}

\* one key used with every kind of value, as the Maps allow, and what is written to it
StoreIds == {"s1"}
StoreValues == {"v1"}
HashObjects == {[f |-> "1"], [g |-> "1"]}
HashFields == {"f", "g"}
ListValues == {<<"a">>, <<"b">>}
Members == {"m1", "m2"}
ExpireSeconds == {30}

NullScore == -1
Null == "<null>"

\* ------------------------------------------------------------ Map helpers
EmptyMap == [x \in {} |-> 0]

Has(m, k) == k \in DOMAIN m

Put(m, k, v) == [x \in (DOMAIN m) \cup {k} |-> IF x = k THEN v ELSE m[x]]

Delete(m, k) == [x \in (DOMAIN m) \ {k} |-> m[x]]

Max(a, b) == IF a >= b THEN a ELSE b

this == [store |-> store, ttls |-> ttls, hashes |-> hashes, lists |-> lists, zsets |-> zsets]

EmptyDb == [store |-> EmptyMap, ttls |-> EmptyMap, hashes |-> EmptyMap, lists |-> EmptyMap,
            zsets |-> EmptyMap]

\* ------------------------------------------------------ store primitives
_isExpired(t, key, tnow) == Has(t.ttls, key) /\ t.ttls[key] <= tnow

_setExpiry(t, key, seconds, tnow) ==
    IF seconds > 0 THEN [t EXCEPT !.ttls = Put(t.ttls, key, tnow + Seconds(seconds))] ELSE t

get(t, key, tnow) ==
    IF _isExpired(t, key, tnow)
    THEN [db |-> [t EXCEPT !.store = Delete(t.store, key), !.ttls = Delete(t.ttls, key)],
          ret |-> Null]
    ELSE [db |-> t, ret |-> IF Has(t.store, key) THEN t.store[key] ELSE Null]

\* one argument of set(key, value, ...args): a word ('EX', 'PX', 'NX') or a number
Word(w) == [w |-> w, n |-> 0]
Num(n) == [w |-> "", n |-> n]
Truthy(args, i) == i <= Len(args) /\ (args[i].w # "" \/ args[i].n # 0)

RECURSIVE setArgs(_, _, _, _, _, _)
setArgs(t, key, value, args, i, tnow) ==
    IF i > Len(args) THEN [db |-> t, ret |-> "OK"]
    ELSE IF args[i].w = "EX" /\ Truthy(args, i + 1)
    THEN setArgs(_setExpiry(t, key, args[i + 1].n, tnow), key, value, args, i + 1, tnow)
    ELSE IF args[i].w = "PX" /\ Truthy(args, i + 1)
    THEN setArgs([t EXCEPT !.ttls = Put(t.ttls, key, tnow + ToClock(args[i + 1].n))],
                 key, value, args, i + 1, tnow)
    ELSE IF args[i].w = "NX"
    THEN IF Has(t.store, key) /\ ~_isExpired(t, key, tnow)
         THEN [db |-> t, ret |-> Null]
         ELSE [db |-> [t EXCEPT !.store = Put(t.store, key, value)], ret |-> "OK"]
    ELSE setArgs(t, key, value, args, i + 1, tnow)

set(t, key, value, args, tnow) ==
    setArgs([t EXCEPT !.store = Put(t.store, key, value)], key, value, args, 1, tnow)

del(t, key) ==
    [db |-> [store |-> Delete(t.store, key), hashes |-> Delete(t.hashes, key),
             lists |-> Delete(t.lists, key), zsets |-> Delete(t.zsets, key),
             ttls |-> Delete(t.ttls, key)],
     ret |-> IF Has(t.store, key) THEN 1 ELSE 0]

\* the RegExp keys() builds from its pattern: '*' is '.*', '?' is '.', the rest literal
RECURSIVE globMatch(_, _)
globMatch(pattern, str) ==
    IF pattern = "" THEN str = ""
    ELSE LET p == SubSeq(pattern, 1, 1)
             restP == SubSeq(pattern, 2, Len(pattern))
             restS == SubSeq(str, 2, Len(str))
         IN IF p = "*" THEN globMatch(restP, str) \/ (str # "" /\ globMatch(pattern, restS))
            ELSE /\ str # ""
                 /\ (p = "?" \/ p = SubSeq(str, 1, 1))
                 /\ globMatch(restP, restS)

keys(t, pattern, tnow) ==
    LET allKeys == DOMAIN t.store \cup DOMAIN t.hashes \cup DOMAIN t.lists \cup DOMAIN t.zsets
    IN [db |-> t, ret |-> {key \in allKeys : ~_isExpired(t, key, tnow) /\ globMatch(pattern, key)}]

expire(t, key, seconds, tnow) ==
    IF ~Has(t.store, key) /\ ~Has(t.hashes, key) /\ ~Has(t.lists, key) /\ ~Has(t.zsets, key)
    THEN [db |-> t, ret |-> 0]
    ELSE [db |-> _setExpiry(t, key, seconds, tnow), ret |-> 1]

\* Math.ceil(a / b) for b > 0
Ceil(a, b) == -((-a) \div b)

\* mutant: ttl() that reports a remaining time of 0 or less instead of -2
ttlUnclamped(t, key, tnow) ==
    IF ~Has(t.ttls, key)
    THEN [db |-> t,
          ret |-> IF ~Has(t.store, key) /\ ~Has(t.hashes, key) /\ ~Has(t.lists, key)
                     /\ ~Has(t.zsets, key)
                  THEN -2 ELSE -1]
    ELSE [db |-> t, ret |-> Ceil(t.ttls[key] - tnow, TicksPerSecond)]

\* the method ttl(key)
ttlOfKey(t, key, tnow) ==
    IF ~Has(t.ttls, key)
    THEN [db |-> t,
          ret |-> IF ~Has(t.store, key) /\ ~Has(t.hashes, key) /\ ~Has(t.lists, key)
                     /\ ~Has(t.zsets, key)
                  THEN -2 ELSE -1]
    ELSE LET remaining == Ceil(t.ttls[key] - tnow, TicksPerSecond)
         IN [db |-> t, ret |-> IF remaining > 0 THEN remaining ELSE -2]

\* mutant: zadd that leaves the score of a member already in the set as it is
zaddKeepsScore(t, key, score, member) ==
    LET zset == IF Has(t.zsets, key) THEN t.zsets[key] ELSE EmptyMap
    IN [db |-> [t EXCEPT !.zsets =
                   Put(t.zsets, key, IF Has(zset, member) THEN zset ELSE Put(zset, member, score))],
        ret |-> 1]

zadd(t, key, score, member) ==
    LET zset == IF Has(t.zsets, key) THEN t.zsets[key] ELSE EmptyMap
    IN [db |-> [t EXCEPT !.zsets = Put(t.zsets, key, Put(zset, member, score))], ret |-> 1]

zrem(t, key, member) ==
    IF ~Has(t.zsets, key) THEN [db |-> t, ret |-> 0]
    ELSE [db |-> [t EXCEPT !.zsets = Put(t.zsets, key, Delete(t.zsets[key], member))],
          ret |-> IF Has(t.zsets[key], member) THEN 1 ELSE 0]

zcard(t, key, tnow) ==
    IF _isExpired(t, key, tnow)
    THEN [db |-> [t EXCEPT !.zsets = Delete(t.zsets, key)], ret |-> 0]
    ELSE [db |-> t, ret |-> IF Has(t.zsets, key) THEN Cardinality(DOMAIN t.zsets[key]) ELSE 0]

zscore(t, key, member) ==
    [db |-> t,
     ret |-> IF Has(t.zsets, key) /\ Has(t.zsets[key], member)
             THEN t.zsets[key][member] ELSE NullScore]

\* mutant: the upper end of the score range is exclusive
zremrangebyscoreExclusive(t, key, max) ==
    IF ~Has(t.zsets, key) THEN [db |-> t, ret |-> 0]
    ELSE LET zset == t.zsets[key]
             gone == {m \in DOMAIN zset : zset[m] < max}
         IN [db |-> [t EXCEPT !.zsets =
                        Put(t.zsets, key, [m \in (DOMAIN zset) \ gone |-> zset[m]])],
             ret |-> Cardinality(gone)]

\* zremrangebyscore(key, '-inf', max): every caller passes min = '-inf'
zremrangebyscore(t, key, max) ==
    IF ~Has(t.zsets, key) THEN [db |-> t, ret |-> 0]
    ELSE LET zset == t.zsets[key]
             gone == {m \in DOMAIN zset : zset[m] <= max}
         IN [db |-> [t EXCEPT !.zsets =
                        Put(t.zsets, key, [m \in (DOMAIN zset) \ gone |-> zset[m]])],
             ret |-> Cardinality(gone)]

\* the body of the setInterval callback of _startTTLCleaner
ttlCleaner(t, tnow) ==
    LET dead == {k \in DOMAIN t.ttls : t.ttls[k] <= tnow}
        keep(m) == [k \in (DOMAIN m) \ dead |-> m[k]]
    IN [store |-> keep(t.store), hashes |-> keep(t.hashes), lists |-> keep(t.lists),
        zsets |-> keep(t.zsets), ttls |-> keep(t.ttls)]

\* ------------------------------------------------------ timezone helpers
\* config.system.timezoneOffset || 8
timezoneOffsetOf(cfg) == IF cfg.timezoneOffset # 0 THEN cfg.timezoneOffset ELSE 8

\* getDateInTimezone: the instant of the shifted Date (offset * 3600000 ms later)
getDateInTimezone(cfg, date) == date + ToClock(timezoneOffsetOf(cfg) * 3600000)

\* getUTCFullYear, getUTCMonth() + 1, getUTCDate and getUTCHours of an instant
utcFields(instant) ==
    LET days == instant \div Seconds(86400)
        z == days + 719468
        era == z \div 146097
        doe == z - era * 146097
        yoe == (doe - doe \div 1460 + doe \div 36524 - doe \div 146096) \div 365
        doy == doe - (365 * yoe + yoe \div 4 - yoe \div 100)
        mp == (5 * doy + 2) \div 153
        d == doy - (153 * mp + 2) \div 5 + 1
        m == IF mp < 10 THEN mp + 3 ELSE mp - 9
        y == yoe + era * 400 + (IF m <= 2 THEN 1 ELSE 0)
    IN [year |-> y, month |-> m, date |-> d,
        hours |-> (instant % Seconds(86400)) \div Seconds(3600)]

\* String(n).padStart(2, '0')
padStart2(n) == IF n < 10 THEN "0" \o ToString(n) ELSE ToString(n)

getDateStringInTimezone(cfg, date) ==
    LET f == utcFields(getDateInTimezone(cfg, date))
    IN ToString(f.year) \o "-" \o padStart2(f.month) \o "-" \o padStart2(f.date)

getHourInTimezone(cfg, date) == utcFields(getDateInTimezone(cfg, date)).hours

\* currentMonth: `${year}-${month}` of the shifted Date
currentMonthOf(cfg, date) ==
    LET f == utcFields(getDateInTimezone(cfg, date))
    IN ToString(f.year) \o "-" \o padStart2(f.month)

\* currentHour: `${today}:${hour}` of the shifted Date
currentHourOf(cfg, date) ==
    getDateStringInTimezone(cfg, date) \o ":" \o padStart2(getHourInTimezone(cfg, date))

\* ---------------------------------------------------- numbers kept as strings
Digits == <<"0", "1", "2", "3", "4", "5", "6", "7", "8", "9">>

isDigit(c) == \E i \in 1..10 : Digits[i] = c

digitValue(c) == (CHOOSE i \in 1..10 : Digits[i] = c) - 1

\* the value of the longest run of digits at the start of str; -1 when there is none
RECURSIVE leadingDigits(_, _, _)
leadingDigits(str, i, acc) ==
    IF i > Len(str) \/ ~isDigit(SubSeq(str, i, i)) THEN (IF i = 1 THEN -1 ELSE acc)
    ELSE leadingDigits(str, i + 1, IF acc < 0 THEN digitValue(SubSeq(str, i, i))
                                   ELSE acc * 10 + digitValue(SubSeq(str, i, i)))

\* parseInt(str) || 0, and parseFloat(str) || 0 on the whole-number strings the counters
\* hold: a missing value, NaN (no leading digit) and 0 all give 0
parseIntOr0(str) ==
    IF str = Null \/ str = "" THEN 0
    ELSE IF SubSeq(str, 1, 1) = "-"
    THEN LET v == leadingDigits(SubSeq(str, 2, Len(str)), 1, -1) IN IF v < 0 THEN 0 ELSE -v
    ELSE LET v == leadingDigits(str, 1, -1) IN IF v < 0 THEN 0 ELSE v

\* ------------------------------------------------------------ hash methods
\* mutant: hincrby that stores the increment instead of the sum
hincrbyOverwrites(t, key, field, increment) ==
    LET hash == IF Has(t.hashes, key) THEN t.hashes[key] ELSE EmptyMap
    IN [db |-> [t EXCEPT !.hashes = Put(t.hashes, key, Put(hash, field, ToString(increment)))],
        ret |-> increment]

hincrby(t, key, field, increment) ==
    LET hash == IF Has(t.hashes, key) THEN t.hashes[key] ELSE EmptyMap
        current == IF Has(hash, field) THEN parseIntOr0(hash[field]) ELSE 0
        newValue == current + increment
    IN [db |-> [t EXCEPT !.hashes = Put(t.hashes, key, Put(hash, field, ToString(newValue)))],
        ret |-> newValue]

\* hset(key, object): every field of the object is stored as a string
hset(t, key, object) ==
    LET hash == IF Has(t.hashes, key) THEN t.hashes[key] ELSE EmptyMap
        merged == [f \in (DOMAIN hash) \cup (DOMAIN object) |->
                      IF f \in DOMAIN object THEN object[f] ELSE hash[f]]
    IN [db |-> [t EXCEPT !.hashes = Put(t.hashes, key, merged)], ret |-> 1]

\* hgetall: an expired hash is dropped (its ttls entry stays) and reads as {}
hgetall(t, key, tnow) ==
    IF _isExpired(t, key, tnow)
    THEN [db |-> [t EXCEPT !.hashes = Delete(t.hashes, key)], ret |-> EmptyMap]
    ELSE [db |-> t, ret |-> IF Has(t.hashes, key) THEN t.hashes[key] ELSE EmptyMap]

\* hget: hash.get(field) || null; an expired hash is dropped (its ttls entry stays)
hget(t, key, field, tnow) ==
    IF _isExpired(t, key, tnow)
    THEN [db |-> [t EXCEPT !.hashes = Delete(t.hashes, key)], ret |-> Null]
    ELSE [db |-> t,
          ret |-> IF Has(t.hashes, key) /\ Has(t.hashes[key], field) /\ t.hashes[key][field] # ""
                  THEN t.hashes[key][field] ELSE Null]

\* ---- lists: an Array is a sequence, index 0 first
\* lpush: the values are put in front of the list, in the order given
lpush(t, key, values) ==
    LET list == IF Has(t.lists, key) THEN t.lists[key] ELSE <<>>
    IN [db |-> [t EXCEPT !.lists = Put(t.lists, key, values \o list)],
        ret |-> Len(values) + Len(list)]

Min(a, b) == IF a <= b THEN a ELSE b

\* Array.prototype.slice(start, end) for start >= 0 and end >= 0
slice(list, start, end) ==
    IF start >= Min(end, Len(list)) THEN <<>> ELSE SubSeq(list, start + 1, Min(end, Len(list)))

lrange(t, key, start, stop, tnow) ==
    IF _isExpired(t, key, tnow)
    THEN [db |-> [t EXCEPT !.lists = Delete(t.lists, key)], ret |-> <<>>]
    ELSE IF ~Has(t.lists, key) THEN [db |-> t, ret |-> <<>>]
    ELSE LET list == t.lists[key]
             length == Len(list)
             realStart == IF start < 0 THEN Max(0, length + start) ELSE start
             realStop == IF stop < 0 THEN Max(0, length + stop) ELSE stop
         IN [db |-> t, ret |-> slice(list, realStart, realStop + 1)]

ltrim(t, key, start, stop, tnow) ==
    IF ~Has(t.lists, key) THEN [db |-> t, ret |-> "OK"]
    ELSE LET trimmed == lrange(t, key, start, stop, tnow)
         IN [db |-> [trimmed.db EXCEPT !.lists = Put(trimmed.db.lists, key, trimmed.ret)],
             ret |-> "OK"]

\* ------------------------------------------------------------- pipeline
\* one recorded command of a pipeline: hincrby(key, field, n) or expire(key, n)
Hincrby(key, field, n) == [method |-> "hincrby", key |-> key, field |-> field, n |-> n]
Expire(key, seconds) == [method |-> "expire", key |-> key, field |-> "", n |-> seconds]

\* self[cmd.method](...cmd.args)
runCommand(t, cmd, tnow) ==
    IF cmd.method = "hincrby" THEN hincrby(t, cmd.key, cmd.field, cmd.n).db
    ELSE expire(t, cmd.key, cmd.n, tnow).db

\* exec(): the recorded commands one after the other, from the i-th on
RECURSIVE exec(_, _, _, _)
exec(t, commands, i, tnow) ==
    IF i > Len(commands) THEN t
    ELSE LET next == runCommand(t, commands[i], tnow)
         IN \* each command is awaited, hence evaluated, before the next one runs
            IF next = next THEN exec(next, commands, i + 1, tnow) ELSE next

\* ------------------------------------------------------------ usage meter
Contains(str, sub) ==
    \E i \in 1..(Len(str) - Len(sub) + 1) : SubSeq(str, i, i + Len(sub) - 1) = sub

EndsWith(str, sub) ==
    Len(str) >= Len(sub) /\ SubSeq(str, Len(str) - Len(sub) + 1, Len(str)) = sub

\* str.replace(sub, ''): the first occurrence only
removeFirst(str, sub) ==
    IF ~Contains(str, sub) THEN str
    ELSE LET i == CHOOSE j \in 1..(Len(str) - Len(sub) + 1) :
                     /\ SubSeq(str, j, j + Len(sub) - 1) = sub
                     /\ \A k \in 1..(j - 1) : SubSeq(str, k, k + Len(sub) - 1) # sub
         IN SubSeq(str, 1, i - 1) \o SubSeq(str, i + Len(sub), Len(str))

allDigits(str) == Len(str) > 0 /\ \A i \in 1..Len(str) : isDigit(SubSeq(str, i, i))

\* str from position i on matches -v\d+:\d+$
isVersionSuffix(str, i) ==
    /\ i + 1 <= Len(str)
    /\ SubSeq(str, i, i + 1) = "-v"
    /\ \E c \in (i + 2)..Len(str) :
          /\ SubSeq(str, c, c) = ":"
          /\ allDigits(SubSeq(str, i + 2, c - 1))
          /\ allDigits(SubSeq(str, c + 1, Len(str)))

\* str.replace(/-v\d+:\d+$/, '')
stripVersion(str) ==
    IF \E i \in 1..Len(str) : isVersionSuffix(str, i)
    THEN LET i == CHOOSE j \in 1..Len(str) :
                     /\ isVersionSuffix(str, j)
                     /\ \A k \in 1..(j - 1) : ~isVersionSuffix(str, k)
         IN SubSeq(str, 1, i - 1)
    ELSE str

LowerAlnumDash ==
    {"a", "b", "c", "d", "e", "f", "g", "h", "i", "j", "k", "l", "m", "n", "o", "p", "q", "r",
     "s", "t", "u", "v", "w", "x", "y", "z", "-"} \cup {Digits[i] : i \in 1..10}

\* str.replace(/^[a-z0-9-]+\./, '')
stripVendorPrefix(str) ==
    IF \E i \in 2..Len(str) :
          /\ SubSeq(str, i, i) = "."
          /\ \A k \in 1..(i - 1) : SubSeq(str, k, k) \in LowerAlnumDash
    THEN LET i == CHOOSE j \in 2..Len(str) :
                     /\ SubSeq(str, j, j) = "."
                     /\ \A k \in 1..(j - 1) : SubSeq(str, k, k) \in LowerAlnumDash
         IN SubSeq(str, i + 1, Len(str))
    ELSE str

_normalizeModelName(model) ==
    IF model = "" \/ model = "unknown" THEN model
    ELSE IF Contains(model, ".anthropic.") \/ Contains(model, ".claude")
    THEN stripVersion(removeFirst(stripVendorPrefix(model), "anthropic."))
    ELSE IF stripVersion(model) # model THEN stripVersion(model)
    ELSE IF EndsWith(model, ":latest") THEN SubSeq(model, 1, Len(model) - Len(":latest"))
    ELSE model

\* the keys incrementTokenUsage writes
usageKey(keyId) == "usage:" \o keyId
dailyKey(cfg, keyId, date) == "usage:daily:" \o keyId \o ":" \o getDateStringInTimezone(cfg, date)
monthlyKey(cfg, keyId, date) == "usage:monthly:" \o keyId \o ":" \o currentMonthOf(cfg, date)
hourlyKey(cfg, keyId, date) == "usage:hourly:" \o keyId \o ":" \o currentHourOf(cfg, date)
modelDailyKey(cfg, model, date) ==
    "usage:model:daily:" \o _normalizeModelName(model) \o ":" \o getDateStringInTimezone(cfg, date)
keyModelDailyKey(cfg, keyId, model, date) ==
    "usage:" \o keyId \o ":model:daily:" \o _normalizeModelName(model) \o ":"
        \o getDateStringInTimezone(cfg, date)
\* minuteTimestamp = Math.floor(now.getTime() / 60000)
systemMinuteKeyOf(date) == "system:metrics:minute:" \o ToString(date \div ToClock(60000))

\* finalOutputTokens = outputTokens || (finalInputTokens > 0 ? 0 : tokens)
finalOutputTokensOf(tokens, inputTokens, outputTokens) ==
    IF outputTokens # 0 THEN outputTokens ELSE IF inputTokens > 0 THEN 0 ELSE tokens

\* the commands incrementTokenUsage records in its pipeline, in order; u is the record
\* of its numeric arguments
usageCommands(cfg, keyId, u, model, tnow) ==
    LET key == usageKey(keyId)
        daily == dailyKey(cfg, keyId, tnow)
        monthly == monthlyKey(cfg, keyId, tnow)
        hourly == hourlyKey(cfg, keyId, tnow)
        modelDaily == modelDailyKey(cfg, model, tnow)
        keyModelDaily == keyModelDailyKey(cfg, keyId, model, tnow)
        systemMinuteKey == systemMinuteKeyOf(tnow)
        finalInputTokens == u.inputTokens
        finalOutputTokens == finalOutputTokensOf(u.tokens, u.inputTokens, u.outputTokens)
        finalCacheCreateTokens == u.cacheCreateTokens
        finalCacheReadTokens == u.cacheReadTokens
        totalTokens == finalInputTokens + finalOutputTokens + finalCacheCreateTokens
                          + finalCacheReadTokens
        coreTokens == finalInputTokens + finalOutputTokens
    IN <<Hincrby(key, "totalTokens", coreTokens),
         Hincrby(key, "totalInputTokens", finalInputTokens),
         Hincrby(key, "totalOutputTokens", finalOutputTokens),
         Hincrby(key, "totalCacheCreateTokens", finalCacheCreateTokens),
         Hincrby(key, "totalCacheReadTokens", finalCacheReadTokens),
         Hincrby(key, "totalAllTokens", totalTokens),
         Hincrby(key, "totalEphemeral5mTokens", u.ephemeral5mTokens),
         Hincrby(key, "totalEphemeral1hTokens", u.ephemeral1hTokens)>>
       \o (IF u.isLongContextRequest
           THEN <<Hincrby(key, "totalLongContextInputTokens", finalInputTokens),
                  Hincrby(key, "totalLongContextOutputTokens", finalOutputTokens),
                  Hincrby(key, "totalLongContextRequests", 1)>>
           ELSE <<>>)
       \o <<Hincrby(key, "totalRequests", 1),
            Hincrby(daily, "tokens", coreTokens),
            Hincrby(daily, "inputTokens", finalInputTokens),
            Hincrby(daily, "outputTokens", finalOutputTokens),
            Hincrby(daily, "cacheCreateTokens", finalCacheCreateTokens),
            Hincrby(daily, "cacheReadTokens", finalCacheReadTokens),
            Hincrby(daily, "allTokens", totalTokens),
            Hincrby(daily, "requests", 1),
            Hincrby(daily, "ephemeral5mTokens", u.ephemeral5mTokens),
            Hincrby(daily, "ephemeral1hTokens", u.ephemeral1hTokens),
            Hincrby(monthly, "tokens", coreTokens),
            Hincrby(monthly, "inputTokens", finalInputTokens),
            Hincrby(monthly, "outputTokens", finalOutputTokens),
            Hincrby(monthly, "cacheCreateTokens", finalCacheCreateTokens),
            Hincrby(monthly, "cacheReadTokens", finalCacheReadTokens),
            Hincrby(monthly, "allTokens", totalTokens),
            Hincrby(monthly, "requests", 1),
            Hincrby(hourly, "tokens", coreTokens),
            Hincrby(hourly, "inputTokens", finalInputTokens),
            Hincrby(hourly, "outputTokens", finalOutputTokens),
            Hincrby(hourly, "allTokens", totalTokens),
            Hincrby(hourly, "requests", 1),
            Hincrby(modelDaily, "inputTokens", finalInputTokens),
            Hincrby(modelDaily, "outputTokens", finalOutputTokens),
            Hincrby(modelDaily, "allTokens", totalTokens),
            Hincrby(modelDaily, "requests", 1),
            Hincrby(keyModelDaily, "inputTokens", finalInputTokens),
            Hincrby(keyModelDaily, "outputTokens", finalOutputTokens),
            Hincrby(keyModelDaily, "allTokens", totalTokens),
            Hincrby(keyModelDaily, "requests", 1),
            Hincrby(systemMinuteKey, "requests", 1),
            Hincrby(systemMinuteKey, "totalTokens", totalTokens),
            Hincrby(systemMinuteKey, "inputTokens", finalInputTokens),
            Hincrby(systemMinuteKey, "outputTokens", finalOutputTokens),
            Expire(daily, 86400 * 32),
            Expire(monthly, 86400 * 365),
            Expire(hourly, 86400 * 7),
            Expire(systemMinuteKey, cfg.metricsWindow * 60 * 2)>>

incrementTokenUsage(t, cfg, keyId, u, model, tnow) ==
    [db |-> exec(t, usageCommands(cfg, keyId, u, model, tnow), 1, tnow), ret |-> 0]

\* ---- getUsageStats
\* parseInt(data[field]) || 0
fieldOr0(data, field) == IF Has(data, field) THEN parseIntOr0(data[field]) ELSE 0

\* mutant: both field names are counted
bothCounted(a, b) == a + b

\* a || b on numbers: 0 and NaN are falsy
firstNonZero(a, b) == IF a # 0 THEN a ELSE b

handleLegacyData(data) ==
    LET tokens == firstNonZero(fieldOr0(data, "totalTokens"), fieldOr0(data, "tokens"))
        inputTokens ==
            firstNonZero(fieldOr0(data, "totalInputTokens"), fieldOr0(data, "inputTokens"))
        outputTokens ==
            firstNonZero(fieldOr0(data, "totalOutputTokens"), fieldOr0(data, "outputTokens"))
        requests == firstNonZero(fieldOr0(data, "totalRequests"), fieldOr0(data, "requests"))
        cacheCreateTokens == firstNonZero(fieldOr0(data, "totalCacheCreateTokens"),
                                          fieldOr0(data, "cacheCreateTokens"))
        cacheReadTokens == firstNonZero(fieldOr0(data, "totalCacheReadTokens"),
                                        fieldOr0(data, "cacheReadTokens"))
        allTokens == firstNonZero(fieldOr0(data, "totalAllTokens"), fieldOr0(data, "allTokens"))
        actualAllTokens ==
            IF allTokens # 0 THEN allTokens
            ELSE inputTokens + outputTokens + cacheCreateTokens + cacheReadTokens
    IN [tokens |-> actualAllTokens, inputTokens |-> inputTokens,
        outputTokens |-> outputTokens, cacheCreateTokens |-> cacheCreateTokens,
        cacheReadTokens |-> cacheReadTokens, allTokens |-> actualAllTokens,
        requests |-> requests]

\* new Date(createdAt): a stored instant is written as whole seconds since the epoch
dateOf(str) == parseIntOr0(str)

\* Math.ceil(a / b) for b > 0
CeilDiv(a, b) == -((-a) \div b)

\* Math.round(x * 100) / 100 of x = a / b, in hundredths
roundHundredths(a, b) == (200 * a + b) \div (2 * b)

\* the averages of getUsageStats, in hundredths
averagesOf(totalRequests, totalTokens, daysSinceCreated) ==
    LET totalMinutes == Max(1, daysSinceCreated * 24 * 60)
    IN [rpm |-> roundHundredths(totalRequests, totalMinutes),
        tpm |-> roundHundredths(totalTokens, totalMinutes),
        dailyRequests |-> roundHundredths(totalRequests, daysSinceCreated),
        dailyTokens |-> roundHundredths(totalTokens, daysSinceCreated)]

\* the four hgetall calls are awaited, hence evaluated, before the figures are derived
getUsageStats(t, cfg, keyId, tnow) ==
    LET total == hgetall(t, usageKey(keyId), tnow)
        daily == hgetall(total.db, dailyKey(cfg, keyId, tnow), tnow)
        monthly == hgetall(daily.db, monthlyKey(cfg, keyId, tnow), tnow)
        keyData == hgetall(monthly.db, "apikey:" \o keyId, tnow)
        createdAt == IF Has(keyData.ret, "createdAt") /\ keyData.ret["createdAt"] # ""
                     THEN dateOf(keyData.ret["createdAt"]) ELSE tnow
        daysSinceCreated == Max(1, CeilDiv(tnow - createdAt, Seconds(60 * 60 * 24)))
    IN [db |-> keyData.db,
        ret |-> [total |-> handleLegacyData(total.ret),
                 daily |-> handleLegacyData(daily.ret),
                 monthly |-> handleLegacyData(monthly.ret),
                 averages |->
                     CHOOSE a \in {averagesOf(requests, tokens, days) :
                                      requests \in {fieldOr0(total.ret, "totalRequests")},
                                      tokens \in {fieldOr0(total.ret, "totalTokens")},
                                      days \in {daysSinceCreated}} : TRUE]]

\* ---- account usage
accountKeyOf(accountId) == "account_usage:" \o accountId
accountDailyKeyOf(cfg, accountId, date) ==
    "account_usage:daily:" \o accountId \o ":" \o getDateStringInTimezone(cfg, date)
accountMonthlyKeyOf(cfg, accountId, date) ==
    "account_usage:monthly:" \o accountId \o ":" \o currentMonthOf(cfg, date)
accountHourlyKeyOf(cfg, accountId, date) ==
    "account_usage:hourly:" \o accountId \o ":" \o currentHourOf(cfg, date)

\* the calls in the operations array of incrementAccountUsage, in order
accountOperations(cfg, accountId, u, model, tnow) ==
    LET accountKey == accountKeyOf(accountId)
        accountDaily == accountDailyKeyOf(cfg, accountId, tnow)
        accountMonthly == accountMonthlyKeyOf(cfg, accountId, tnow)
        accountHourly == accountHourlyKeyOf(cfg, accountId, tnow)
        normalizedModel == _normalizeModelName(model)
        finalInputTokens == u.inputTokens
        finalOutputTokens == u.outputTokens
        actualTotalTokens == finalInputTokens + finalOutputTokens + u.cacheCreateTokens
                                + u.cacheReadTokens
        coreTokens == finalInputTokens + finalOutputTokens
    IN <<Hincrby(accountKey, "totalTokens", coreTokens),
         Hincrby(accountKey, "totalInputTokens", finalInputTokens),
         Hincrby(accountKey, "totalOutputTokens", finalOutputTokens),
         Hincrby(accountKey, "totalAllTokens", actualTotalTokens),
         Hincrby(accountKey, "totalRequests", 1),
         Hincrby(accountDaily, "tokens", coreTokens),
         Hincrby(accountDaily, "inputTokens", finalInputTokens),
         Hincrby(accountDaily, "outputTokens", finalOutputTokens),
         Hincrby(accountDaily, "allTokens", actualTotalTokens),
         Hincrby(accountDaily, "requests", 1),
         Hincrby(accountHourly, "inputTokens", finalInputTokens),
         Hincrby(accountHourly, "outputTokens", finalOutputTokens),
         Hincrby(accountHourly, "allTokens", actualTotalTokens),
         Hincrby(accountHourly, "requests", 1),
         Hincrby(accountHourly, "model:" \o normalizedModel \o ":inputTokens", finalInputTokens),
         Hincrby(accountHourly, "model:" \o normalizedModel \o ":outputTokens",
                 finalOutputTokens),
         Hincrby(accountHourly, "model:" \o normalizedModel \o ":allTokens", actualTotalTokens),
         Hincrby(accountHourly, "model:" \o normalizedModel \o ":requests", 1),
         Expire(accountDaily, 86400 * 32),
         Expire(accountMonthly, 86400 * 365),
         Expire(accountHourly, 86400 * 7)>>

\* none of the methods called awaits, so every call of the array has run when
\* Promise.all is reached
incrementAccountUsage(t, cfg, accountId, u, model, tnow) ==
    [db |-> exec(t, accountOperations(cfg, accountId, u, model, tnow), 1, tnow), ret |-> 0]

handleAccountData(data) ==
    [tokens |-> fieldOr0(data, "totalTokens"),
     inputTokens |-> fieldOr0(data, "totalInputTokens"),
     outputTokens |-> fieldOr0(data, "totalOutputTokens"),
     allTokens |-> fieldOr0(data, "totalAllTokens"),
     requests |-> fieldOr0(data, "totalRequests")]

getAccountUsageStats(t, cfg, accountId, tnow) ==
    LET total == hgetall(t, accountKeyOf(accountId), tnow)
        daily == hgetall(total.db, accountDailyKeyOf(cfg, accountId, tnow), tnow)
    IN [db |-> daily.db,
        ret |-> [accountId |-> accountId, total |-> handleAccountData(total.ret),
                 daily |-> handleAccountData(daily.ret), dailyCost |-> 0,
                 monthly |-> handleAccountData(EmptyMap)]]

\* ------------------------------------------------------------- cost meter
\* incrbyfloat up to its first await: the read of the current value.  Amounts are whole
\* numbers, for which parseFloat and toString are exact.
incrbyfloatRead(t, key, tnow) ==
    LET g == get(t, key, tnow) IN [db |-> g.db, ret |-> parseIntOr0(g.ret)]

\* mutant: the increment replaces the stored value
incrbyfloatWriteOverwrites(t, key, current, increment, tnow) ==
    [db |-> set(t, key, ToString(increment), <<>>, tnow).db, ret |-> increment]

\* incrbyfloat after its first await: the sum is written back
incrbyfloatWrite(t, key, current, increment, tnow) ==
    [db |-> set(t, key, ToString(current + increment), <<>>, tnow).db,
     ret |-> current + increment]

\* incrbyfloat when nothing runs between its read and its write
incrbyfloat(t, key, increment, tnow) ==
    LET r == incrbyfloatRead(t, key, tnow)
    IN incrbyfloatWrite(r.db, key, r.ret, increment, tnow)

\* dailyKey, monthlyKey, hourlyKey and totalKey of incrementDailyCost, in this order
costKeys(cfg, keyId, date) ==
    <<"usage:cost:daily:" \o keyId \o ":" \o getDateStringInTimezone(cfg, date),
      "usage:cost:monthly:" \o keyId \o ":" \o currentMonthOf(cfg, date),
      "usage:cost:hourly:" \o keyId \o ":" \o currentHourOf(cfg, date),
      "usage:cost:total:" \o keyId>>

\* the incrbyfloat calls on keys ks, each run up to its await, from the i-th on
RECURSIVE incrbyfloatReads(_, _, _, _, _)
incrbyfloatReads(t, ks, i, read, tnow) ==
    IF i > Len(ks) THEN [db |-> t, read |-> read]
    ELSE LET r == incrbyfloatRead(t, ks[i], tnow)
         IN incrbyfloatReads(r.db, ks, i + 1, Append(read, r.ret), tnow)

\* incrementDailyCost while it builds the array for Promise.all: the four incrbyfloat
\* calls run up to their await, then the three expire calls run
incrementDailyCostStart(t, cfg, keyId, tnow) ==
    LET ks == costKeys(cfg, keyId, tnow)
        reads == incrbyfloatReads(t, ks, 1, <<>>, tnow)
    IN [db |-> exec(reads.db, <<Expire(ks[1], 86400 * 30), Expire(ks[2], 86400 * 90),
                               Expire(ks[3], 86400 * 7)>>, 1, tnow),
        read |-> reads.read]

\* the i-th incrbyfloat of incrementDailyCost resumes and writes
incrementDailyCostWrite(t, cfg, keyId, amount, read, i, tnow) ==
    incrbyfloatWrite(t, costKeys(cfg, keyId, tnow)[i], read[i], amount, tnow)

\* the incrbyfloat calls of incrementDailyCost resume one after the other, from the
\* i-th on
RECURSIVE incrementDailyCostWrites(_, _, _, _, _, _, _)
incrementDailyCostWrites(t, cfg, keyId, amount, read, i, tnow) ==
    IF i > Len(read) THEN t
    ELSE LET w == incrementDailyCostWrite(t, cfg, keyId, amount, read, i, tnow)
         IN incrementDailyCostWrites(w.db, cfg, keyId, amount, read, i + 1, tnow)

\* incrementDailyCost when no other call runs while it awaits
incrementDailyCost(t, cfg, keyId, amount, tnow) ==
    LET s == incrementDailyCostStart(t, cfg, keyId, tnow)
    IN [db |-> incrementDailyCostWrites(s.db, cfg, keyId, amount, s.read, 1, tnow),
        ret |-> 0]

\* parseFloat(value || 0) of a stored whole number
parseFloatOr0(value) == IF value = Null \/ value = "" THEN 0 ELSE parseIntOr0(value)

\* the get calls on keys ks, from the i-th on
RECURSIVE gets(_, _, _, _, _)
gets(t, ks, i, read, tnow) ==
    IF i > Len(ks) THEN [db |-> t, read |-> read]
    ELSE LET g == get(t, ks[i], tnow)
         IN gets(g.db, ks, i + 1, Append(read, g.ret), tnow)

getCostStats(t, cfg, keyId, tnow) ==
    LET r == gets(t, costKeys(cfg, keyId, tnow), 1, <<>>, tnow)
    IN [db |-> r.db,
        ret |-> [daily |-> parseFloatOr0(r.read[1]), monthly |-> parseFloatOr0(r.read[2]),
                 hourly |-> parseFloatOr0(r.read[3]), total |-> parseFloatOr0(r.read[4])]]

\* ------------------------------------------------- concurrency lease tracker
concurrencyKey(apiKeyId) == "concurrency:" \o apiKeyId

leaseOf(leaseSeconds) == IF leaseSeconds # 0 THEN leaseSeconds ELSE DefaultLeaseSeconds

keyTtlOf(lease) == Max((lease + CleanupGraceSeconds) * 1000, MinKeyTtlMs)

\* mutant: incrConcurrency without the sweep
incrSweepSkipped(t, key, tnow) == t

\* incrConcurrency up to its first await: the sweep
incrSweep(t, key, tnow) == zremrangebyscore(t, key, tnow).db

\* incrConcurrency between its first and second await: the insert
incrAdd(t, key, expireAt, requestId) == zadd(t, key, expireAt, requestId).db

\* incrConcurrency after its second await: key TTL and count
incrCount(t, key, ttl, tnow) ==
    LET t1 == IF ttl > 0 THEN [t EXCEPT !.ttls = Put(t.ttls, key, tnow + ToClock(ttl))] ELSE t
    IN zcard(t1, key, tnow)

\* mutant: incrConcurrency that sweeps before it validates requestId
incrConcurrencyValidatesLate(t, apiKeyId, requestId, leaseSeconds, tnow) ==
    LET lease == leaseOf(leaseSeconds)
        key == concurrencyKey(apiKeyId)
        t1 == incrSweep(t, key, tnow)
    IN IF requestId = EmptyId THEN [db |-> t1, ret |-> 0, threw |-> TRUE]
       ELSE LET t2 == incrAdd(t1, key, tnow + Seconds(lease), requestId)
                r == incrCount(t2, key, keyTtlOf(lease), tnow)
            IN [db |-> r.db, ret |-> r.ret, threw |-> FALSE]

incrConcurrency(t, apiKeyId, requestId, leaseSeconds, tnow) ==
    IF requestId = EmptyId THEN [db |-> t, ret |-> 0, threw |-> TRUE]
    ELSE LET lease == leaseOf(leaseSeconds)
             key == concurrencyKey(apiKeyId)
             expireAt == tnow + Seconds(lease)
             ttl == keyTtlOf(lease)
             t1 == incrSweep(t, key, tnow)
             t2 == incrAdd(t1, key, expireAt, requestId)
             r == incrCount(t2, key, ttl, tnow)
         IN [db |-> r.db, ret |-> r.ret, threw |-> FALSE]

compositeKey(accountId) == "console_account:" \o accountId

incrConsoleAccountConcurrency(t, accountId, requestId, leaseSeconds, tnow) ==
    IF requestId = EmptyId THEN [db |-> t, ret |-> 0, threw |-> TRUE]
    ELSE incrConcurrency(t, compositeKey(accountId), requestId, leaseSeconds, tnow)

\* ping(): "PONG", or an error while the client is not connected
ping(connected) == [ret |-> IF connected THEN "PONG" ELSE Null, threw |-> ~connected]

\* mutant: a renewal that admits the requestId when it is not in the set
refreshReadmits(t, apiKeyId, requestId, leaseSeconds, tnow) ==
    IF requestId = EmptyId THEN [db |-> t, ret |-> 0]
    ELSE LET lease == leaseOf(leaseSeconds)
             key == concurrencyKey(apiKeyId)
             t1 == zremrangebyscore(t, key, tnow).db
             t2 == zadd(t1, key, tnow + Seconds(lease), requestId).db
         IN [db |-> [t2 EXCEPT !.ttls = Put(t2.ttls, key, tnow + ToClock(keyTtlOf(lease)))], ret |-> 1]

refreshConcurrencyLease(t, apiKeyId, requestId, leaseSeconds, tnow) ==
    IF requestId = EmptyId THEN [db |-> t, ret |-> 0]
    ELSE LET lease == leaseOf(leaseSeconds)
             key == concurrencyKey(apiKeyId)
             expireAt == tnow + Seconds(lease)
             ttl == keyTtlOf(lease)
             t1 == zremrangebyscore(t, key, tnow).db
             exists == zscore(t1, key, requestId).ret
         IN IF exists # NullScore
            THEN LET t2 == zadd(t1, key, expireAt, requestId).db
                     t3 == IF ttl > 0 THEN [t2 EXCEPT !.ttls = Put(t2.ttls, key, tnow + ToClock(ttl))]
                           ELSE t2
                 IN [db |-> t3, ret |-> 1]
            ELSE [db |-> t1, ret |-> 0]

\* mutant: decrConcurrency without the removal of requestId
decrRemoveSkipped(t, key, requestId) == t

\* decrConcurrency up to its first await: the removal of requestId
decrRemove(t, key, requestId) == IF requestId # EmptyId THEN zrem(t, key, requestId).db ELSE t

\* decrConcurrency between its first and second await: the sweep
decrSweep(t, key, tnow) == zremrangebyscore(t, key, tnow).db

\* mutant: decrConcurrency that leaves the key in place when the count is 0
decrCountKeepsKey(t, key, tnow) ==
    LET r == zcard(t, key, tnow)
    IN IF r.ret <= 0 THEN [db |-> r.db, ret |-> 0] ELSE r

\* decrConcurrency after its second await: count, and del when the count is 0
decrCount(t, key, tnow) ==
    LET r == zcard(t, key, tnow)
    IN IF r.ret <= 0 THEN [db |-> del(r.db, key).db, ret |-> 0] ELSE r

decrConcurrency(t, apiKeyId, requestId, tnow) ==
    LET key == concurrencyKey(apiKeyId)
        t1 == decrRemove(t, key, requestId)
        t2 == decrSweep(t1, key, tnow)
    IN decrCount(t2, key, tnow)

getConcurrency(t, apiKeyId, tnow) ==
    LET key == concurrencyKey(apiKeyId)
    IN zcard(zremrangebyscore(t, key, tnow).db, key, tnow)

\* ---- eval: the procedure is picked by the words found in the script body;
\* ---- keys = <<key>>, argv = <<member, expireAt, now, ttl>> (<<member, now>> for a release)
eval(t, script, key, member, expireAt, nowArg, ttl, tnow) ==
    IF Contains(script, "ZREMRANGEBYSCORE") /\ Contains(script, "ZADD")
    THEN LET t1 == zremrangebyscore(t, key, nowArg).db
             t2 == zadd(t1, key, expireAt, member).db
             t3 == IF ttl > 0 THEN [t2 EXCEPT !.ttls = Put(t2.ttls, key, tnow + ToClock(ttl))]
                   ELSE t2
         IN zcard(t3, key, tnow)
    ELSE IF Contains(script, "get") /\ Contains(script, "del") /\ Contains(script, "KEYS[1]")
    THEN LET current == get(t, key, tnow)
         IN IF current.ret = member THEN [db |-> del(current.db, key).db, ret |-> 1]
            ELSE [db |-> current.db, ret |-> 0]
    ELSE IF Contains(script, "ZSCORE") /\ Contains(script, "exists")
    THEN LET t1 == zremrangebyscore(t, key, nowArg).db
             exists == zscore(t1, key, member).ret
         IN IF exists # NullScore
            THEN LET t2 == zadd(t1, key, expireAt, member).db
                 IN [db |-> IF ttl > 0
                            THEN [t2 EXCEPT !.ttls = Put(t2.ttls, key, tnow + ToClock(ttl))]
                            ELSE t2,
                     ret |-> 1]
            ELSE [db |-> t1, ret |-> 0]
    ELSE IF Contains(script, "ZREM") /\ Contains(script, "ZCARD")
    THEN LET t1 == IF member # EmptyId THEN zrem(t, key, member).db ELSE t
             t2 == zremrangebyscore(t1, key, nowArg).db
             count == zcard(t2, key, tnow)
         IN IF count.ret <= 0 THEN [db |-> del(count.db, key).db, ret |-> 0] ELSE count
    ELSE [db |-> t, ret |-> 0]

\* --------------------------------------------------------- sticky sessions
stickyKey(sessionHash) == "sticky_session:" \o sessionHash

\* appConfig.session?.stickyTtlHours || 1
stickyTtlHoursOf(cfg) == IF cfg.stickyTtlHours # 0 THEN cfg.stickyTtlHours ELSE 1

\* mutant: a set that writes the accountId without an expiry argument
setSessionKeepsTtl(t, cfg, sessionHash, accountId, ttlArg, tnow) ==
    set(t, stickyKey(sessionHash), accountId, <<>>, tnow)

setSessionAccountMapping(t, cfg, sessionHash, accountId, ttlArg, tnow) ==
    LET defaultTTL == IF ttlArg # NullTtl THEN ttlArg ELSE stickyTtlHoursOf(cfg) * 60 * 60
    IN set(t, stickyKey(sessionHash), accountId, <<Word("EX"), Num(defaultTTL)>>, tnow)

getSessionAccountMapping(t, sessionHash, tnow) == get(t, stickyKey(sessionHash), tnow)

\* mutant: a renewal that also fires when the remaining TTL equals the threshold
extendRenewsAtThreshold(t, cfg, sessionHash, tnow) ==
    LET key == stickyKey(sessionHash)
        fullTTL == stickyTtlHoursOf(cfg) * 60 * 60
        renewalThreshold == cfg.renewalThresholdMinutes * 60
        remainingTTL == ttlOfKey(t, key, tnow).ret
    IN IF cfg.renewalThresholdMinutes = 0 THEN [db |-> t, ret |-> TRUE]
       ELSE IF remainingTTL = -2 THEN [db |-> t, ret |-> FALSE]
       ELSE IF remainingTTL = -1 THEN [db |-> t, ret |-> TRUE]
       ELSE IF remainingTTL <= renewalThreshold
       THEN [db |-> expire(t, key, fullTTL, tnow).db, ret |-> TRUE]
       ELSE [db |-> t, ret |-> TRUE]

extendSessionAccountMappingTTL(t, cfg, sessionHash, tnow) ==
    LET key == stickyKey(sessionHash)
        ttlHours == stickyTtlHoursOf(cfg)
        thresholdMinutes == cfg.renewalThresholdMinutes
        fullTTL == ttlHours * 60 * 60
        renewalThreshold == thresholdMinutes * 60
        remainingTTL == ttlOfKey(t, key, tnow).ret
    IN IF thresholdMinutes = 0 THEN [db |-> t, ret |-> TRUE]
       ELSE IF remainingTTL = -2 THEN [db |-> t, ret |-> FALSE]
       ELSE IF remainingTTL = -1 THEN [db |-> t, ret |-> TRUE]
       ELSE IF remainingTTL < renewalThreshold
       THEN [db |-> expire(t, key, fullTTL, tnow).db, ret |-> TRUE]
       ELSE [db |-> t, ret |-> TRUE]

deleteSessionAccountMapping(t, sessionHash) == del(t, stickyKey(sessionHash))

\* ------------------------------------------------------- distributed lock
setAccountLock(t, lockKey, lockValue, ttlMs, tnow) ==
    LET r == set(t, lockKey, lockValue, <<Word("PX"), Num(ttlMs), Word("NX")>>, tnow)
    IN [db |-> r.db, ret |-> (r.ret = "OK")]

\* mutant: a release that does not compare the stored value with the token
releaseUnchecked(t, lockKey, lockValue, tnow) ==
    LET g == get(t, lockKey, tnow)
    IN IF g.ret # Null THEN [db |-> del(g.db, lockKey).db, ret |-> TRUE]
       ELSE [db |-> g.db, ret |-> FALSE]

releaseAccountLock(t, lockKey, lockValue, tnow) ==
    LET g == get(t, lockKey, tnow)
    IN IF g.ret = lockValue THEN [db |-> del(g.db, lockKey).db, ret |-> TRUE]
       ELSE [db |-> g.db, ret |-> FALSE]

\* ------------------------------------------------------------ state machine
Commit(t) ==
    /\ store' = t.store
    /\ ttls' = t.ttls
    /\ hashes' = t.hashes
    /\ lists' = t.lists
    /\ zsets' = t.zsets

\* the call that was made last: its arguments and what it returned
Call(op, key, id, arg, n, ok, err) ==
    [op |-> op, key |-> key, id |-> id, arg |-> arg, n |-> n, ok |-> ok, err |-> err,
     ov |-> FALSE]

IdleCall == [pc |-> "idle", key |-> "", id |-> EmptyId, arg |-> 0, now |-> 0, count |-> 0,
             ov |-> FALSE]

\* configuration as loaded (0 stands for an unset entry, which is falsy as well;
\* timezoneOffsetSet tells the two apart for the timezone offset)
DefaultConfig == [stickyTtlHours |-> 0, renewalThresholdMinutes |-> 0, metricsWindow |-> 5,
                  timezoneOffset |-> 8, timezoneOffsetSet |-> TRUE]

\* what the callers of the meters have recorded so far
EmptyLedger == [n |-> 0, day |-> EmptyMap, cost |-> <<>>, ticks |-> 0]

IdleCost == [pc |-> "idle", keyId |-> "", amount |-> 0, read |-> <<>>]

AllIdle == \A c \in Callers : calls[c].pc = "idle"

\* the start script before it is launched
NotLaunched == [pc |-> "off", args |-> {}, skipLint |-> FALSE, help |-> FALSE,
                done |-> <<>>, exitCode |-> NullScore]

\* the state after the constructor, whatever configuration was loaded and whether or not
\* the start script runs
Constructed ==
    /\ store = EmptyMap
    /\ ttls = EmptyMap
    /\ hashes = EmptyMap
    /\ lists = EmptyMap
    /\ zsets = EmptyMap
    /\ now = 0
    /\ pre = [db |-> EmptyDb, now |-> 0, granted |-> [s \in Subjects |-> EmptyMap]]
    /\ last = Call("init", "", EmptyId, 0, 0, FALSE, FALSE)
    /\ granted = [s \in Subjects |-> EmptyMap]
    /\ calls = [c \in Callers |-> IdleCall]
    /\ held = [r \in RequestIds |-> FALSE]
    /\ isConnected = FALSE
    /\ mapped = EmptyMap
    /\ ledger = EmptyLedger
    /\ costs = [c \in Callers |-> IdleCost]
    /\ reply = <<>>

Init == Constructed /\ config = DefaultConfig /\ boot = NotLaunched

Snapshot == pre' = [db |-> this, now |-> now, granted |-> granted]

Tick ==
    /\ AllIdle
    /\ now + StepMs <= MaxTicks * StepMs
    /\ now' = now + StepMs
    /\ Snapshot
    /\ last' = Call("tick", "", EmptyId, 0, 0, FALSE, FALSE)
    /\ UNCHANGED <<store, ttls, hashes, lists, zsets, granted, calls, held, aux>>

TTLCleaner ==
    /\ AllIdle
    /\ Commit(ttlCleaner(this, now))
    /\ Snapshot
    /\ last' = Call("clean", "", EmptyId, 0, 0, FALSE, FALSE)
    /\ UNCHANGED <<now, granted, calls, held, aux>>

\* ---- sequential callers of the lease tracker (each call awaited before the next)
DoIncrConcurrency(s, id, leaseSeconds) ==
    LET r == incrConcurrency(this, s, id, leaseSeconds, now)
    IN /\ Commit(r.db)
       /\ Snapshot
       /\ last' = Call("incr", s, id, leaseSeconds, r.ret, FALSE, r.threw)
       /\ granted' = IF r.threw THEN granted
                     ELSE [granted EXCEPT ![s] =
                              Put(@, id, now + Seconds(leaseOf(leaseSeconds)))]
       /\ UNCHANGED <<now, calls, held, aux>>

DoRefreshConcurrencyLease(s, id, leaseSeconds) ==
    LET r == refreshConcurrencyLease(this, s, id, leaseSeconds, now)
    IN /\ Commit(r.db)
       /\ Snapshot
       /\ last' = Call("refresh", s, id, leaseSeconds, r.ret, FALSE, FALSE)
       /\ granted' = IF r.ret = 1
                     THEN [granted EXCEPT ![s] =
                              Put(@, id, now + Seconds(leaseOf(leaseSeconds)))]
                     ELSE granted
       /\ UNCHANGED <<now, calls, held, aux>>

DoDecrConcurrency(s, id) ==
    LET r == decrConcurrency(this, s, id, now)
    IN /\ Commit(r.db)
       /\ Snapshot
       /\ last' = Call("decr", s, id, 0, r.ret, FALSE, FALSE)
       /\ granted' = [granted EXCEPT ![s] = Delete(@, id)]
       /\ UNCHANGED <<now, calls, held, aux>>

DoGetConcurrency(s) ==
    LET r == getConcurrency(this, s, now)
    IN /\ Commit(r.db)
       /\ Snapshot
       /\ last' = Call("get", s, EmptyId, 0, r.ret, FALSE, FALSE)
       /\ UNCHANGED <<now, granted, calls, held, aux>>

NextLease ==
    \/ Tick
    \/ TTLCleaner
    \/ \E s \in Subjects, id \in RequestIds \cup {EmptyId}, l \in LeaseChoices :
          DoIncrConcurrency(s, id, l)
    \/ \E s \in Subjects, id \in RequestIds \cup {EmptyId}, l \in LeaseChoices :
          DoRefreshConcurrencyLease(s, id, l)
    \/ \E s \in Subjects, id \in RequestIds \cup {EmptyId} : DoDecrConcurrency(s, id)
    \/ \E s \in Subjects : DoGetConcurrency(s)

SpecLease == Init /\ [][NextLease]_vars

\* ---- concurrent callers of the lease tracker: a call runs up to its next await,
\* ---- then any other call in flight may run; timers fire only between calls
IdsOf(c) == IF c = "c1" THEN {"r1"} ELSE {"r2"}

Overlap(c) == \E d \in Callers \ {c} : calls[d].pc # "idle"

\* a call of c starts while others are in flight: all of them overlap
MarkOverlap(c, started) ==
    [d \in Callers |->
        IF d = c THEN [started EXCEPT !.ov = Overlap(c)]
        ELSE IF calls[d].pc # "idle" THEN [calls[d] EXCEPT !.ov = TRUE]
        ELSE calls[d]]

StartIncr(c, s, id, leaseSeconds) ==
    /\ calls[c].pc = "idle"
    /\ Commit(incrSweep(this, concurrencyKey(s), now))
    /\ calls' = MarkOverlap(c, [pc |-> "incrAdd", key |-> s, id |-> id, arg |-> leaseSeconds,
                                now |-> now, count |-> 0, ov |-> FALSE])
    /\ UNCHANGED <<now, pre, last, granted, held, aux>>

IncrAdd(c) ==
    /\ calls[c].pc = "incrAdd"
    /\ Commit(incrAdd(this, concurrencyKey(calls[c].key),
                      calls[c].now + Seconds(leaseOf(calls[c].arg)), calls[c].id))
    /\ calls' = [calls EXCEPT ![c].pc = "incrCount"]
    /\ UNCHANGED <<now, pre, last, granted, held, aux>>

IncrCount(c) ==
    /\ calls[c].pc = "incrCount"
    /\ LET r == incrCount(this, concurrencyKey(calls[c].key), keyTtlOf(leaseOf(calls[c].arg)),
                          now)
       IN /\ Commit(r.db)
          /\ calls' = [calls EXCEPT ![c].pc = "incrReturn", ![c].count = r.ret]
    /\ UNCHANGED <<now, pre, last, granted, held, aux>>

IncrReturn(c) ==
    /\ calls[c].pc = "incrReturn"
    /\ last' = [Call("incr", calls[c].key, calls[c].id, calls[c].arg, calls[c].count,
                     FALSE, FALSE) EXCEPT !.ov = calls[c].ov]
    /\ held' = [held EXCEPT ![calls[c].id] = TRUE]
    /\ calls' = [calls EXCEPT ![c] = IdleCall]
    /\ UNCHANGED <<store, ttls, hashes, lists, zsets, now, pre, granted, aux>>

StartDecr(c, s, id) ==
    /\ calls[c].pc = "idle"
    /\ Commit(decrRemove(this, concurrencyKey(s), id))
    /\ calls' = MarkOverlap(c, [pc |-> "decrSweep", key |-> s, id |-> id, arg |-> 0,
                                now |-> now, count |-> 0, ov |-> FALSE])
    /\ UNCHANGED <<now, pre, last, granted, held, aux>>

DecrSweep(c) ==
    /\ calls[c].pc = "decrSweep"
    /\ Commit(decrSweep(this, concurrencyKey(calls[c].key), calls[c].now))
    /\ calls' = [calls EXCEPT ![c].pc = "decrCount"]
    /\ UNCHANGED <<now, pre, last, granted, held, aux>>

\* zcard runs when the call resumes after the sweep; its result is awaited, so del runs
\* in a later step
DecrCount(c) ==
    /\ calls[c].pc = "decrCount"
    /\ LET r == zcard(this, concurrencyKey(calls[c].key), now)
       IN /\ Commit(r.db)
          /\ calls' = [calls EXCEPT ![c].pc = IF r.ret <= 0 THEN "decrDel" ELSE "decrReturn",
                                    ![c].count = r.ret]
    /\ UNCHANGED <<now, pre, last, granted, held, aux>>

DecrDel(c) ==
    /\ calls[c].pc = "decrDel"
    /\ Commit(del(this, concurrencyKey(calls[c].key)).db)
    /\ calls' = [calls EXCEPT ![c].pc = "decrReturn", ![c].count = 0]
    /\ UNCHANGED <<now, pre, last, granted, held, aux>>

DecrReturn(c) ==
    /\ calls[c].pc = "decrReturn"
    /\ last' = [Call("decr", calls[c].key, calls[c].id, 0, calls[c].count, FALSE, FALSE)
                   EXCEPT !.ov = calls[c].ov]
    /\ held' = [held EXCEPT ![calls[c].id] = FALSE]
    /\ calls' = [calls EXCEPT ![c] = IdleCall]
    /\ UNCHANGED <<store, ttls, hashes, lists, zsets, now, pre, granted, aux>>

NextConc ==
    \/ (Tick /\ now < MaxConcTicks * StepMs)
    \/ TTLCleaner
    \/ \E c \in Callers, s \in Subjects, l \in ConcLeaseChoices :
          \E id \in IdsOf(c) : StartIncr(c, s, id, l)
    \/ \E c \in Callers : IncrAdd(c)
    \/ \E c \in Callers : IncrCount(c)
    \/ \E c \in Callers : IncrReturn(c)
    \/ \E c \in Callers, s \in Subjects : \E id \in IdsOf(c) : StartDecr(c, s, id)
    \/ \E c \in Callers : DecrSweep(c)
    \/ \E c \in Callers : DecrCount(c)
    \/ \E c \in Callers : DecrDel(c)
    \/ \E c \in Callers : DecrReturn(c)

SpecConc == Init /\ [][NextConc]_vars

\* ---- callers of the distributed lock
DoSetAccountLock(lockKey, lockValue, ttlMs) ==
    LET r == setAccountLock(this, lockKey, lockValue, ttlMs, now)
    IN /\ Commit(r.db)
       /\ Snapshot
       /\ last' = Call("lock", lockKey, lockValue, ttlMs, 0, r.ret, FALSE)
       /\ UNCHANGED <<now, granted, calls, held, aux>>

DoReleaseAccountLock(lockKey, lockValue) ==
    LET r == releaseAccountLock(this, lockKey, lockValue, now)
    IN /\ Commit(r.db)
       /\ Snapshot
       /\ last' = Call("unlock", lockKey, lockValue, 0, 0, r.ret, FALSE)
       /\ UNCHANGED <<now, granted, calls, held, aux>>

NextLock ==
    \/ Tick
    \/ TTLCleaner
    \/ \E k \in LockKeys, v \in Tokens, ms \in TtlMsChoices : DoSetAccountLock(k, v, ms)
    \/ \E k \in LockKeys, v \in Tokens : DoReleaseAccountLock(k, v)

SpecLock == Init /\ [][NextLock]_vars

\* ---- admission through both entry points, with the client connected or not
Connect ==
    /\ isConnected' = TRUE
    /\ Snapshot
    /\ last' = Call("connect", "", EmptyId, 0, 0, TRUE, FALSE)
    /\ UNCHANGED <<store, ttls, hashes, lists, zsets, now, granted, calls, held,
                   config, mapped, ledger, costs, reply, boot>>

Disconnect ==
    /\ isConnected' = FALSE
    /\ Snapshot
    /\ last' = Call("disconnect", "", EmptyId, 0, 0, TRUE, FALSE)
    /\ UNCHANGED <<store, ttls, hashes, lists, zsets, now, granted, calls, held,
                   config, mapped, ledger, costs, reply, boot>>

DoPing ==
    LET r == ping(isConnected)
    IN /\ Snapshot
       /\ last' = Call("ping", "", EmptyId, 0, 0, ~r.threw, r.threw)
       /\ UNCHANGED <<store, ttls, hashes, lists, zsets, now, granted, calls, held, aux>>

DoIncrConsoleAccountConcurrency(a, id, leaseSeconds) ==
    LET r == incrConsoleAccountConcurrency(this, a, id, leaseSeconds, now)
    IN /\ Commit(r.db)
       /\ Snapshot
       /\ last' = Call("incrConsole", compositeKey(a), id, leaseSeconds, r.ret, FALSE, r.threw)
       /\ UNCHANGED <<now, granted, calls, held, aux>>

NextAdmit ==
    \/ Tick
    \/ Connect
    \/ Disconnect
    \/ DoPing
    \/ \E s \in Subjects, id \in {"r1", EmptyId}, l \in LeaseChoices :
          DoIncrConcurrency(s, id, l)
    \/ \E a \in Accounts, id \in {"r1", EmptyId}, l \in LeaseChoices :
          DoIncrConsoleAccountConcurrency(a, id, l)

SpecAdmit == Init /\ [][NextAdmit]_vars

\* ---- callers of the sticky-session mapping, under each renewal threshold
InitSession ==
    /\ Constructed
    /\ boot = NotLaunched
    /\ \E th \in ThresholdChoices :
          config = [DefaultConfig EXCEPT !.renewalThresholdMinutes = th]

\* what the session contract expects after a set: the account, the instant the mapping
\* runs out (NullScore: unknown, the ttl argument was 0)
Expected(accountId, ttlArg) ==
    [acct |-> accountId,
     exp |-> IF ttlArg = 0 THEN NullScore
             ELSE IF ttlArg = NullTtl THEN now + Seconds(stickyTtlHoursOf(config) * 3600)
             ELSE now + Seconds(ttlArg)]

\* the contract's lazy renewal: below the threshold the mapping gets the full TTL again
Renewed(m) ==
    IF /\ config.renewalThresholdMinutes > 0
       /\ m.exp > now
       /\ Ceil(m.exp - now, TicksPerSecond) < config.renewalThresholdMinutes * 60
    THEN [m EXCEPT !.exp = now + Seconds(stickyTtlHoursOf(config) * 3600)]
    ELSE m

DoSetSessionAccountMapping(sh, accountId, ttlArg) ==
    LET r == setSessionAccountMapping(this, config, sh, accountId, ttlArg, now)
    IN /\ Commit(r.db)
       /\ Snapshot
       /\ last' = Call("setSession", sh, accountId, ttlArg, 0, TRUE, FALSE)
       /\ mapped' = Put(mapped, sh, Expected(accountId, ttlArg))
       /\ UNCHANGED <<now, granted, calls, held, isConnected, config, ledger, costs, reply, boot>>

DoGetSessionAccountMapping(sh) ==
    LET r == getSessionAccountMapping(this, sh, now)
    IN /\ Commit(r.db)
       /\ Snapshot
       /\ last' = Call("getSession", sh, r.ret, 0, 0, r.ret # Null, FALSE)
       /\ UNCHANGED <<now, granted, calls, held, aux>>

DoExtendSessionAccountMappingTTL(sh) ==
    LET r == extendSessionAccountMappingTTL(this, config, sh, now)
    IN /\ Commit(r.db)
       /\ Snapshot
       /\ last' = Call("extendSession", sh, EmptyId, 0, 0, r.ret, FALSE)
       /\ mapped' = IF Has(mapped, sh) THEN Put(mapped, sh, Renewed(mapped[sh])) ELSE mapped
       /\ UNCHANGED <<now, granted, calls, held, isConnected, config, ledger, costs, reply, boot>>

DoDeleteSessionAccountMapping(sh) ==
    LET r == deleteSessionAccountMapping(this, sh)
    IN /\ Commit(r.db)
       /\ Snapshot
       /\ last' = Call("deleteSession", sh, EmptyId, 0, r.ret, TRUE, FALSE)
       /\ mapped' = Delete(mapped, sh)
       /\ UNCHANGED <<now, granted, calls, held, isConnected, config, ledger, costs, reply, boot>>

NextSession ==
    \/ Tick
    \/ TTLCleaner
    \/ \E sh \in Sessions, a \in AccountIds, ttlArg \in TtlArgs :
          DoSetSessionAccountMapping(sh, a, ttlArg)
    \/ \E sh \in Sessions : DoGetSessionAccountMapping(sh)
    \/ \E sh \in Sessions : DoExtendSessionAccountMappingTTL(sh)
    \/ \E sh \in Sessions : DoDeleteSessionAccountMapping(sh)

SpecSession == InitSession /\ [][NextSession]_vars

\* ---- callers of the usage meter; the clock moves in thirds of a day
MeterStep == Seconds(8 * 3600)

TickMeter ==
    /\ \A c \in Callers : costs[c].pc = "idle"
    /\ now + MeterStep <= MaxMeterTicks * MeterStep
    /\ now' = now + MeterStep
    /\ Snapshot
    /\ last' = Call("tick", "", EmptyId, 0, 0, FALSE, FALSE)
    /\ UNCHANGED <<store, ttls, hashes, lists, zsets, granted, calls, held, aux>>

\* the day of the configured timezone an instant falls on, counted from the epoch
DayOf(instant) == (instant + Seconds(timezoneOffsetOf(config) * 3600)) \div Seconds(86400)

\* the amounts recorded on each day so far: the plain sums of the arguments, and the
\* sums in which a request without input and output counts its total as output
Recorded(u) ==
    LET d == DayOf(now)
        old == IF Has(ledger.day, d) THEN ledger.day[d]
               ELSE [at |-> now, n |-> 0, core |-> 0, all |-> 0, coreFinal |-> 0, allFinal |-> 0]
        core == u.inputTokens + u.outputTokens
        cache == u.cacheCreateTokens + u.cacheReadTokens
        extra == IF u.inputTokens = 0 /\ u.outputTokens = 0 THEN u.tokens ELSE 0
    IN [ledger EXCEPT
          !.n = ledger.n + 1,
          !.day = Put(ledger.day, d,
                      [at |-> old.at, n |-> old.n + 1, core |-> old.core + core,
                       all |-> old.all + core + cache,
                       coreFinal |-> old.coreFinal + core + extra,
                       allFinal |-> old.allFinal + core + cache + extra])]

DoIncrementTokenUsage(keyId, u, model) ==
    LET r == incrementTokenUsage(this, config, keyId, u, model, now)
    IN /\ ledger.n < MaxUsageCalls
       /\ Commit(r.db)
       /\ Snapshot
       /\ last' = Call("usage", keyId, model, u.tokens, 0, TRUE, FALSE)
       /\ ledger' = Recorded(u)
       /\ UNCHANGED <<now, granted, calls, held, isConnected, config, mapped, costs, reply, boot>>

NextMeter ==
    \/ TickMeter
    \/ \E k \in KeyIds, u \in UsageInputs, m \in Models : DoIncrementTokenUsage(k, u, m)

SpecMeter == Init /\ [][NextMeter]_vars

\* ---- concurrent callers of the cost meter: a call runs up to its next await, then any
\* ---- other call in flight may run
StartCost(c, keyId, amount) ==
    /\ costs[c].pc = "idle"
    /\ ledger.n < MaxCostCalls
    /\ LET r == incrementDailyCostStart(this, config, keyId, now)
       IN /\ Commit(r.db)
          /\ costs' = [costs EXCEPT ![c] = [pc |-> "write1", keyId |-> keyId,
                                            amount |-> amount, read |-> r.read]]
    /\ ledger' = [ledger EXCEPT !.n = @ + 1,
                                !.cost = Append(@, [at |-> now, amount |-> amount])]
    /\ UNCHANGED <<now, pre, last, granted, calls, held, isConnected, config, mapped,
                   reply, boot>>

WriteIndex(pc) ==
    IF pc = "write1" THEN 1 ELSE IF pc = "write2" THEN 2 ELSE IF pc = "write3" THEN 3 ELSE 4

NextWrite(pc) ==
    IF pc = "write1" THEN "write2" ELSE IF pc = "write2" THEN "write3"
    ELSE IF pc = "write3" THEN "write4" ELSE "idle"

CostWrite(c) ==
    /\ costs[c].pc # "idle"
    /\ LET r == incrementDailyCostWrite(this, config, costs[c].keyId, costs[c].amount,
                                        costs[c].read, WriteIndex(costs[c].pc), now)
       IN Commit(r.db)
    /\ costs' = [costs EXCEPT ![c] = IF NextWrite(costs[c].pc) = "idle" THEN IdleCost
                                     ELSE [costs[c] EXCEPT !.pc = NextWrite(costs[c].pc)]]
    /\ last' = IF NextWrite(costs[c].pc) = "idle"
               THEN Call("cost", costs[c].keyId, EmptyId, costs[c].amount, 0, TRUE, FALSE)
               ELSE last
    /\ UNCHANGED <<now, pre, granted, calls, held, isConnected, config, mapped, ledger,
                   reply, boot>>

NextCost ==
    \/ TickMeter
    \/ \E c \in Callers, k \in KeyIds, amount \in CostAmounts : StartCost(c, k, amount)
    \/ \E c \in Callers : CostWrite(c)

SpecCost == Init /\ [][NextCost]_vars

\* ---- one caller of the cost meter, each call awaited before the next; the clock moves
\* ---- by an hour, a day or a month
CostSteps == {Seconds(3600), Seconds(86400), Seconds(31 * 86400)}

TickCost ==
    /\ ledger.ticks < MaxCostTicks
    /\ \E step \in CostSteps : now' = now + step
    /\ ledger' = [ledger EXCEPT !.ticks = @ + 1]
    /\ Snapshot
    /\ last' = Call("tick", "", EmptyId, 0, 0, FALSE, FALSE)
    /\ UNCHANGED <<store, ttls, hashes, lists, zsets, granted, calls, held, isConnected,
                   config, mapped, costs, reply, boot>>

DoIncrementDailyCost(keyId, amount) ==
    LET r == incrementDailyCost(this, config, keyId, amount, now)
    IN /\ Len(ledger.cost) < MaxSeqCostCalls
       /\ Commit(r.db)
       /\ Snapshot
       /\ last' = Call("cost", keyId, EmptyId, amount, 0, TRUE, FALSE)
       /\ ledger' = [ledger EXCEPT !.cost = Append(@, [at |-> now, amount |-> amount])]
       /\ UNCHANGED <<now, granted, calls, held, isConnected, config, mapped, costs, reply, boot>>

DoGetCostStats(keyId) ==
    LET r == getCostStats(this, config, keyId, now)
    IN /\ Commit(r.db)
       /\ Snapshot
       /\ last' = Call("coststats", keyId, EmptyId, 0, 0, TRUE, FALSE)
       /\ reply' = r.ret
       /\ UNCHANGED <<now, granted, calls, held, isConnected, config, mapped, ledger, costs, boot>>

NextCostSeq ==
    \/ TickCost
    \/ TTLCleaner
    \/ \E k \in KeyIds, amount \in CostAmounts : DoIncrementDailyCost(k, amount)
    \/ \E k \in KeyIds : DoGetCostStats(k)

SpecCostSeq == Init /\ [][NextCostSeq]_vars

\* ---- the cost meter under each configured timezone offset
InitZone ==
    /\ Constructed
    /\ boot = NotLaunched
    /\ \E z \in ZoneChoices :
          config = [DefaultConfig EXCEPT !.timezoneOffset = z.offset,
                                         !.timezoneOffsetSet = z.set]

NextZone ==
    \/ TickCost
    \/ \E k \in KeyIds, amount \in CostAmounts : DoIncrementDailyCost(k, amount)

SpecZone == InitZone /\ [][NextZone]_vars

\* ---- callers of the list operations
DoLpush(key, values) ==
    LET r == lpush(this, key, values)
    IN /\ r.ret <= MaxListLen
       /\ Commit(r.db)
       /\ Snapshot
       /\ last' = Call("lpush", key, EmptyId, 0, r.ret, TRUE, FALSE)
       /\ reply' = <<>>
       /\ UNCHANGED <<now, granted, calls, held, isConnected, config, mapped, ledger, costs, boot>>

DoLrange(key, start, stop) ==
    LET r == lrange(this, key, start, stop, now)
    IN /\ Commit(r.db)
       /\ Snapshot
       /\ last' = Call("lrange", key, EmptyId, start, stop, TRUE, FALSE)
       /\ reply' = r.ret
       /\ UNCHANGED <<now, granted, calls, held, isConnected, config, mapped, ledger, costs, boot>>

DoLtrim(key, start, stop) ==
    LET r == ltrim(this, key, start, stop, now)
    IN /\ Commit(r.db)
       /\ Snapshot
       /\ last' = Call("ltrim", key, EmptyId, start, stop, TRUE, FALSE)
       /\ reply' = <<>>
       /\ UNCHANGED <<now, granted, calls, held, isConnected, config, mapped, ledger, costs, boot>>

NextList ==
    \/ \E k \in ListKeys, values \in PushChoices : DoLpush(k, values)
    \/ \E k \in ListKeys, start \in Indices, stop \in Indices : DoLrange(k, start, stop)
    \/ \E k \in ListKeys, start \in Indices, stop \in Indices : DoLtrim(k, start, stop)

SpecList == Init /\ [][NextList]_vars

\* ---- concurrent callers of the lock: setAccountLock is one store call, and
\* ---- releaseAccountLock reads, awaits, and compares and deletes when it resumes;
\* ---- Date.now() moves on while a call is suspended
TickLock ==
    /\ now + StepMs <= MaxTicks * StepMs
    /\ now' = now + StepMs
    /\ UNCHANGED <<store, ttls, hashes, lists, zsets, pre, last, granted, calls, held, aux>>

StartRelease(c, lockKey, lockValue) ==
    /\ calls[c].pc = "idle"
    /\ LET g == get(this, lockKey, now)
       IN /\ Commit(g.db)
          /\ calls' = [calls EXCEPT ![c] = [pc |-> "unlockDel", key |-> lockKey,
                                            id |-> lockValue, arg |-> 0, now |-> now,
                                            count |-> IF g.ret = lockValue THEN 1 ELSE 0,
                                            ov |-> FALSE]]
    /\ UNCHANGED <<now, pre, last, granted, held, aux>>

ReleaseDel(c) ==
    /\ calls[c].pc = "unlockDel"
    /\ Commit(IF calls[c].count = 1 THEN del(this, calls[c].key).db ELSE this)
    /\ Snapshot
    /\ last' = Call("unlock", calls[c].key, calls[c].id, 0, 0, calls[c].count = 1, FALSE)
    /\ calls' = [calls EXCEPT ![c] = IdleCall]
    /\ UNCHANGED <<now, granted, held, aux>>

NextLockConc ==
    \/ TickLock
    \/ \E k \in LockKeys, v \in Tokens, ms \in TtlMsChoices : DoSetAccountLock(k, v, ms)
    \/ \E c \in Callers, k \in LockKeys, v \in Tokens : StartRelease(c, k, v)
    \/ \E c \in Callers : ReleaseDel(c)

SpecLockConc == Init /\ [][NextLockConc]_vars

\* ---- the start script (start.mjs): the module body parses the command line, then
\* ---- main() runs its steps one after the other
InitStart ==
    /\ Constructed
    /\ config = DefaultConfig
    /\ \E args \in ArgChoices : boot = [NotLaunched EXCEPT !.pc = "parse", !.args = args]

\* process.exit(code)
exit(b, code) == [b EXCEPT !.pc = "exited", !.exitCode = code]

\* a step of main() has finished and the next one is up
finished(b, step, next) == [b EXCEPT !.pc = next, !.done = Append(@, step)]

\* options = { skipLint, help }; --help prints the usage and exits
ParseOptions ==
    /\ boot.pc = "parse"
    /\ LET skipLint == ~("--lint" \in boot.args)
           help == "--help" \in boot.args \/ "-h" \in boot.args
           parsed == [boot EXCEPT !.skipLint = skipLint, !.help = help]
       IN boot' = IF help THEN exit(parsed, 0) ELSE [parsed EXCEPT !.pc = "check"]
    /\ UNCHANGED <<store, ttls, hashes, lists, zsets, now, pre, last, granted, calls, held,
                   isConnected, config, mapped, ledger, costs, reply>>

\* checkEnvironment: it finishes, or an installation or build step fails and the
\* process exits with code 1
CheckEnvironment ==
    /\ boot.pc = "check"
    /\ \E ok \in BOOLEAN :
          boot' = IF ok THEN finished(boot, "checkEnvironment", "load") ELSE exit(boot, 1)
    /\ UNCHANGED <<store, ttls, hashes, lists, zsets, now, pre, last, granted, calls, held,
                   isConnected, config, mapped, ledger, costs, reply>>

\* loadEnvironment: every failure is caught and logged
LoadEnvironment ==
    /\ boot.pc = "load"
    /\ boot' = finished(boot, "loadEnvironment", "lint")
    /\ UNCHANGED <<store, ttls, hashes, lists, zsets, now, pre, last, granted, calls, held,
                   isConnected, config, mapped, ledger, costs, reply>>

\* runLint: returns at once when options.skipLint is set; otherwise `npm run lint` runs,
\* and its failure is rethrown to main(), which exits with code 1
RunLint ==
    /\ boot.pc = "lint"
    /\ \/ /\ boot.skipLint
          /\ boot' = finished(boot, "lintSkipped", "start")
       \/ /\ ~boot.skipLint
          /\ \E passed \in BOOLEAN :
                boot' = IF passed THEN finished(boot, "lint", "start")
                        ELSE exit([boot EXCEPT !.done = Append(@, "lint")], 1)
    /\ UNCHANGED <<store, ttls, hashes, lists, zsets, now, pre, last, granted, calls, held,
                   isConnected, config, mapped, ledger, costs, reply>>

\* startApplication: app.start() resolves, or it fails and the process exits with code 1
StartApplication ==
    /\ boot.pc = "start"
    /\ \E ok \in BOOLEAN :
          boot' = IF ok THEN finished(boot, "startApplication", "running") ELSE exit(boot, 1)
    /\ UNCHANGED <<store, ttls, hashes, lists, zsets, now, pre, last, granted, calls, held,
                   isConnected, config, mapped, ledger, costs, reply>>

NextStart ==
    \/ ParseOptions
    \/ CheckEnvironment
    \/ LoadEnvironment
    \/ RunLint
    \/ StartApplication

SpecStart == InitStart /\ [][NextStart]_vars

\* ---- readers of the usage meter; a bucket may hold fields under the names of an older
\* ---- counter scheme, written with hset
LegacyHashes ==
    {[key |-> usageKey(k),
      object |-> [tokens |-> "4", inputTokens |-> "3", outputTokens |-> "1",
                  requests |-> "2"]] : k \in KeyIds}
    \cup {[key |-> dailyKey(config, k, now),
           object |-> [totalTokens |-> "9", totalRequests |-> "0", requests |-> "3"]] :
              k \in KeyIds}
    \cup {[key |-> "apikey:" \o k, object |-> [createdAt |-> "0"]] : k \in KeyIds}

DoHset(key, object) ==
    LET r == hset(this, key, object)
    IN /\ ~Has(hashes, key)
       /\ Commit(r.db)
       /\ Snapshot
       /\ last' = Call("hset", key, EmptyId, 0, r.ret, TRUE, FALSE)
       /\ UNCHANGED <<now, granted, calls, held, aux>>

DoGetUsageStats(keyId) ==
    LET r == getUsageStats(this, config, keyId, now)
    IN /\ Commit(r.db)
       /\ Snapshot
       /\ last' = Call("stats", keyId, EmptyId, 0, 0, TRUE, FALSE)
       /\ reply' = r.ret
       /\ UNCHANGED <<now, granted, calls, held, isConnected, config, mapped, ledger, costs, boot>>

NextStats ==
    \/ TickMeter
    \/ \E k \in KeyIds, u \in UsageInputs, m \in Models :
          ledger.n < MaxStatsCalls /\ DoIncrementTokenUsage(k, u, m)
    \/ \E h \in LegacyHashes : DoHset(h.key, h.object)
    \/ \E k \in KeyIds : DoGetUsageStats(k)

SpecStats == Init /\ [][NextStats]_vars

\* ---- a writer of the usage meter with readers in flight: exec() awaits each command,
\* ---- so a reader that was started meanwhile runs between two commands
\* the commands array of the pipeline of the call in flight
pipelineOf(c) == calls[c].arg

\* incrementTokenUsage up to the first await of exec(): the commands are recorded and
\* the first of them has run
StartUsage(c, keyId, u, model) ==
    /\ \A d \in Callers : calls[d].pc = "idle"
    /\ ledger.n < MaxStatsCalls
    /\ \E commands \in {usageCommands(config, keyId, u, model, now)} :
          /\ Commit(runCommand(this, commands[1], now))
          /\ calls' = [calls EXCEPT ![c] = [pc |-> "exec", key |-> keyId, id |-> model,
                                            arg |-> commands, now |-> now, count |-> 2,
                                            ov |-> FALSE]]
    /\ Snapshot
    /\ UNCHANGED <<now, last, granted, held, aux>>

\* exec() resumes after an await and runs the next command
ExecStep(c) ==
    /\ calls[c].pc = "exec"
    /\ calls[c].count <= Len(pipelineOf(c))
    /\ Commit(runCommand(this, pipelineOf(c)[calls[c].count], now))
    /\ calls' = [calls EXCEPT ![c].count = @ + 1]
    /\ UNCHANGED <<now, pre, last, granted, held, aux>>

\* exec() and incrementTokenUsage return
ExecReturn(c) ==
    /\ calls[c].pc = "exec"
    /\ calls[c].count > Len(pipelineOf(c))
    /\ last' = Call("usage", calls[c].key, calls[c].id, 0, 0, TRUE, FALSE)
    /\ ledger' = [ledger EXCEPT !.n = @ + 1]
    /\ calls' = [calls EXCEPT ![c] = IdleCall]
    /\ UNCHANGED <<store, ttls, hashes, lists, zsets, now, pre, granted, held, isConnected,
                   config, mapped, costs, reply, boot>>

\* a reader: getUsageStats called while the writer may be at an await
ReadUsageStats(keyId) ==
    LET r == getUsageStats(this, config, keyId, now)
    IN /\ Commit(r.db)
       /\ last' = Call("stats", keyId, EmptyId, 0, 0, TRUE, FALSE)
       /\ reply' = r.ret
       /\ UNCHANGED <<now, pre, granted, calls, held, isConnected, config, mapped, ledger,
                      costs, boot>>

NextPipe ==
    \/ \E k \in KeyIds, u \in UsageInputs, m \in Models : StartUsage("c1", k, u, m)
    \/ ExecStep("c1")
    \/ ExecReturn("c1")
    \/ \E k \in KeyIds : ReadUsageStats(k)

SpecPipe == Init /\ [][NextPipe]_vars

\* ---- callers of the account usage meter
DoIncrementAccountUsage(accountId, u, model) ==
    LET r == incrementAccountUsage(this, config, accountId, u, model, now)
    IN /\ ledger.n < MaxUsageCalls
       /\ Commit(r.db)
       /\ Snapshot
       /\ last' = Call("acctUsage", accountId, model, u.tokens, 0, TRUE, FALSE)
       /\ ledger' = Recorded(u)
       /\ UNCHANGED <<now, granted, calls, held, isConnected, config, mapped, costs, reply, boot>>

DoGetAccountUsageStats(accountId) ==
    LET r == getAccountUsageStats(this, config, accountId, now)
    IN /\ Commit(r.db)
       /\ Snapshot
       /\ last' = Call("acctStats", accountId, EmptyId, 0, 0, TRUE, FALSE)
       /\ reply' = r.ret
       /\ UNCHANGED <<now, granted, calls, held, isConnected, config, mapped, ledger, costs, boot>>

NextAccount ==
    \/ TickMeter
    \/ \E a \in Accounts, u \in UsageInputs, m \in Models : DoIncrementAccountUsage(a, u, m)
    \/ \E a \in Accounts : DoGetAccountUsageStats(a)

SpecAccount == Init /\ [][NextAccount]_vars

\* ---- callers of eval, each call awaited before the next; the lease arguments are
\* ---- computed as the lease procedures compute them
DoEval(script, s, id, leaseSeconds) ==
    LET lease == leaseOf(leaseSeconds)
        r == eval(this, script, concurrencyKey(s), id, now + Seconds(lease), now,
                  keyTtlOf(lease), now)
    IN /\ Commit(r.db)
       /\ Snapshot
       /\ last' = [op |-> "eval", key |-> s, id |-> id, arg |-> leaseSeconds, n |-> r.ret,
                   ok |-> FALSE, err |-> FALSE, ov |-> FALSE, script |-> script]
       /\ UNCHANGED <<now, granted, calls, held, aux>>

NextEval ==
    \/ Tick
    \/ TTLCleaner
    \/ \E script \in Scripts, s \in Subjects, id \in RequestIds, l \in ConcLeaseChoices :
          DoEval(script, s, id, l)

SpecEval == Init /\ [][NextEval]_vars

\* ---- callers of the store methods on the key of a session, each call awaited before
\* ---- the next
sessionKey(sessionId) == "session:" \o sessionId

deleteSession(t, sessionId) == del(t, sessionKey(sessionId))

\* the call that was made last on the store: val is the value, object or list it wrote
StoreCall(op, key, id, val, n) ==
    [op |-> op, key |-> key, id |-> id, arg |-> 0, n |-> n, ok |-> TRUE, err |-> FALSE,
     ov |-> FALSE, val |-> val]

\* a store method has run: its effect, the call and what it returned
Ran(r, call) ==
    /\ Commit(r.db)
    /\ Snapshot
    /\ last' = call
    /\ reply' = r.ret
    /\ UNCHANGED <<now, granted, calls, held, isConnected, config, mapped, ledger, costs, boot>>

CallSet(key, value, seconds) ==
    Ran(set(this, key, value, <<Word("EX"), Num(seconds)>>, now),
        StoreCall("set", key, "", value, seconds))

CallGet(key) == Ran(get(this, key, now), StoreCall("get", key, "", "", 0))

CallHset(key, object) == Ran(hset(this, key, object), StoreCall("hset", key, "", object, 0))

CallHget(key, field) == Ran(hget(this, key, field, now), StoreCall("hget", key, field, "", 0))

CallHgetall(key) == Ran(hgetall(this, key, now), StoreCall("hgetall", key, "", "", 0))

CallHincrby(key, field, increment) ==
    /\ hincrby(this, key, field, increment).ret <= MaxStoreCount
    /\ Ran(hincrby(this, key, field, increment), StoreCall("hincrby", key, field, "", increment))

CallLpush(key, values) ==
    /\ lpush(this, key, values).ret <= MaxListLen
    /\ Ran(lpush(this, key, values), StoreCall("lpush", key, "", values, 0))

CallLrange(key, start, stop) ==
    Ran(lrange(this, key, start, stop, now), StoreCall("lrange", key, "", "", 0))

CallZadd(key, score, member) ==
    Ran(zadd(this, key, score, member), StoreCall("zadd", key, member, "", score))

CallZcard(key) == Ran(zcard(this, key, now), StoreCall("zcard", key, "", "", 0))

CallZscore(key, member) == Ran(zscore(this, key, member), StoreCall("zscore", key, member, "", 0))

CallExpire(key, seconds) ==
    Ran(expire(this, key, seconds, now), StoreCall("expire", key, "", "", seconds))

CallTtl(key) == Ran(ttlOfKey(this, key, now), StoreCall("ttl", key, "", "", 0))

CallKeys(pattern) == Ran(keys(this, pattern, now), StoreCall("keys", pattern, "", "", 0))

DoDeleteSession(sessionId) ==
    Ran(deleteSession(this, sessionId), StoreCall("del", sessionKey(sessionId), "", "", 0))

NextStore ==
    \/ (Tick /\ now < MaxStoreTicks * StepMs)
    \/ TTLCleaner
    \/ \E id \in StoreIds, v \in StoreValues, e \in ExpireSeconds : CallSet(sessionKey(id), v, e)
    \/ \E id \in StoreIds : CallGet(sessionKey(id))
    \/ \E id \in StoreIds, o \in HashObjects : CallHset(sessionKey(id), o)
    \/ \E id \in StoreIds, f \in HashFields : CallHget(sessionKey(id), f)
    \/ \E id \in StoreIds : CallHgetall(sessionKey(id))
    \/ \E id \in StoreIds : CallHincrby(sessionKey(id), "f", 1)
    \/ \E id \in StoreIds, values \in ListValues : CallLpush(sessionKey(id), values)
    \/ \E id \in StoreIds : CallLrange(sessionKey(id), 0, -1)
    \/ \E id \in StoreIds, m \in Members : CallZadd(sessionKey(id), 1, m)
    \/ \E id \in StoreIds : CallZcard(sessionKey(id))
    \/ \E id \in StoreIds, m \in Members : CallZscore(sessionKey(id), m)
    \/ \E id \in StoreIds, e \in ExpireSeconds : CallExpire(sessionKey(id), e)
    \/ \E id \in StoreIds : CallTtl(sessionKey(id))
    \/ CallKeys("session:*")
    \/ \E id \in StoreIds : DoDeleteSession(id)

SpecStore == Init /\ [][NextStore]_vars

\* =========================================================== lease claims
\* the subject's sorted set as stored, the empty Map when the key is absent
zsetOf(t, s) == IF Has(t.zsets, concurrencyKey(s)) THEN t.zsets[concurrencyKey(s)] ELSE EmptyMap

\* requestIds admitted (or renewed), not released, whose latest expiresAt is in the future
LiveIds(s) == {id \in DOMAIN granted[s] : granted[s][id] > now}

LiveCount(s) == Cardinality(LiveIds(s))

CountOps == {"incr", "decr", "get"}

\* instants from now on, as far as the longest lease reaches
LaterTimes == {now + i * StepMs : i \in 0..(DefaultLeaseSeconds \div CleanupGraceSeconds)}

\* C1 (as claimed): between operations getConcurrency(subject) equals the number of
\* requestIds admitted or renewed, not released, and whose latest expiresAt is > now,
\* for any mix of leaseSeconds values.
C1_CountEqualsLive == \A s \in Subjects : getConcurrency(this, s, now).ret = LiveCount(s)

\* C2: an incrConcurrency with a non-empty id returns n >= 1, and a getConcurrency issued
\* next, at any instant before an entry of the subject expires, returns exactly n.
C2_AcquireThenCount ==
    (last.op = "incr" /\ ~last.err) =>
        /\ last.n >= 1
        /\ \A t \in LaterTimes :
              (\A id \in LiveIds(last.key) : granted[last.key][id] > t)
                 => getConcurrency(this, last.key, t).ret = last.n

C2_Witness ==
    /\ last.op = "incr"
    /\ last.n = 2
    /\ \E m \in DOMAIN pre.db.zsets[concurrencyKey(last.key)] :
          pre.db.zsets[concurrencyKey(last.key)][m] <= now

\* C3: an entry whose expiresAt <= now is in no count returned by incrConcurrency,
\* decrConcurrency or getConcurrency, and refreshConcurrencyLease returns 0 for it,
\* released or not.
C3_SweepBeforeRead ==
    /\ (last.op \in CountOps /\ ~last.err) =>
          /\ last.n <= LiveCount(last.key)
          /\ last.n <= Cardinality({m \in DOMAIN zsetOf(this, last.key) :
                                       zsetOf(this, last.key)[m] > now})
    /\ (last.op = "refresh" /\ last.n = 1) =>
          /\ Has(pre.granted[last.key], last.id)
          /\ pre.granted[last.key][last.id] > now

C3_Witness ==
    /\ last.op = "get"
    /\ last.n = 1
    /\ \E id \in DOMAIN granted[last.key] : granted[last.key][id] <= now

\* C9: refreshConcurrencyLease returns 1 exactly when requestId is in the subject's set
\* with expiresAt > now, then the entry expires lease seconds after now and the key TTL is
\* renewed; otherwise it returns 0 and requestId is not in the set afterwards.
C9_RenewNeverAdmits ==
    (last.op = "refresh") =>
        LET key == concurrencyKey(last.key)
            before == zsetOf(pre.db, last.key)
            after == zsetOf(this, last.key)
            inSet == Has(before, last.id) /\ before[last.id] > now
            lease == leaseOf(last.arg)
        IN /\ ~last.err
           /\ last.n \in {0, 1}
           /\ (last.n = 1) <=> inSet
           /\ (last.n = 1) =>
                 /\ Has(after, last.id)
                 /\ after[last.id] = now + Seconds(lease)
                 /\ Has(ttls, key)
                 /\ ttls[key] = now + ToClock(keyTtlOf(lease))
           /\ (last.n = 0) => ~Has(after, last.id)

C9_Witness ==
    /\ last.op = "refresh"
    /\ last.n = 1
    /\ zsetOf(this, last.key)[last.id] # zsetOf(pre.db, last.key)[last.id]
    /\ ttls[concurrencyKey(last.key)] # pre.db.ttls[concurrencyKey(last.key)]

\* C10 (as claimed): decrConcurrency of any requestId removes no unexpired entry of
\* another requestId and returns the current count; a repeated release changes nothing
\* and returns the same count.
C10_ReleaseIdempotent ==
    (last.op = "decr") =>
        LET before == zsetOf(pre.db, last.key)
            after == zsetOf(this, last.key)
            again == decrConcurrency(this, last.key, last.id, now)
        IN /\ ~last.err
           /\ \A m \in (DOMAIN before) \ {last.id} :
                 before[m] > now => (Has(after, m) /\ after[m] = before[m])
           /\ last.n = Cardinality(DOMAIN after)
           /\ again.db = this
           /\ again.ret = last.n

\* C4: under any interleaving of incrConcurrency and decrConcurrency calls no call returns
\* a negative count, and once every call has completed getConcurrency is not above the
\* number of requestIds acquired and not released.
HeldIds == {r \in RequestIds : held[r]}

C4_NoNegativeNoSurplus ==
    /\ last.n >= 0
    /\ \A c \in Callers : calls[c].count >= 0
    /\ AllIdle => \A s \in Subjects : getConcurrency(this, s, now).ret <= Cardinality(HeldIds)

C4_Witness ==
    /\ AllIdle
    /\ last.op = "decr"
    /\ last.ov
    /\ Cardinality(HeldIds) = 1
    /\ getConcurrency(this, last.key, now).ret = 1

\* ============================================================ lock claims
\* the value a reader finds under key: a key whose TTL has elapsed reads as absent
valueOf(t, key, tnow) ==
    IF Has(t.store, key) /\ ~(Has(t.ttls, key) /\ t.ttls[key] <= tnow) THEN t.store[key]
    ELSE Null

\* the expiry a reader finds under key, NullScore when absent or without TTL
expiryOf(t, key, tnow) ==
    IF valueOf(t, key, tnow) # Null /\ Has(t.ttls, key) THEN t.ttls[key] ELSE NullScore

\* C5 (as claimed): setAccountLock with ttlMs > 0 returns true exactly when lockKey is
\* absent or expired at the call, and then the key holds token with an expiry of ttlMs.
C5_AcquireIffAbsent ==
    (last.op = "lock" /\ last.arg > 0) =>
        /\ last.ok <=> (valueOf(pre.db, last.key, now) = Null)
        /\ last.ok => (valueOf(this, last.key, now) = last.id
                       /\ expiryOf(this, last.key, now) = now + ToClock(last.arg))

\* C6 (as claimed): a setAccountLock that returns false leaves the stored token and the
\* lock's expiry as they were.
C6_FailedAcquireChangesNothing ==
    (last.op = "lock" /\ ~last.ok) =>
        /\ valueOf(this, last.key, now) = valueOf(pre.db, last.key, now)
        /\ expiryOf(this, last.key, now) = expiryOf(pre.db, last.key, now)

\* C7: releaseAccountLock deletes the lock and returns true exactly when the stored value
\* equals token; otherwise it returns false and the value and expiry stay; a release
\* repeated after a successful one returns false.
C7_ReleaseOnlyOwn ==
    (last.op = "unlock") =>
        /\ ~last.err
        /\ last.ok <=> (valueOf(pre.db, last.key, now) = last.id)
        /\ last.ok => /\ ~Has(store, last.key)
                      /\ ~Has(ttls, last.key)
                      /\ ~releaseAccountLock(this, last.key, last.id, now).ret
        /\ ~last.ok => /\ valueOf(this, last.key, now) = valueOf(pre.db, last.key, now)
                       /\ expiryOf(this, last.key, now) = expiryOf(pre.db, last.key, now)

C7_Witness ==
    /\ last.op = "unlock"
    /\ last.ok
    /\ valueOf(pre.db, last.key, now) = last.id
    /\ expiryOf(pre.db, last.key, now) > now

\* ---- the key of a subject is gone from every Map and from the enumeration
Removed(t, key, tnow) ==
    /\ ~Has(t.store, key)
    /\ ~Has(t.hashes, key)
    /\ ~Has(t.lists, key)
    /\ ~Has(t.zsets, key)
    /\ ~Has(t.ttls, key)
    /\ key \notin keys(t, "concurrency:*", tnow).ret

\* C11: a decrConcurrency after which the subject's count is 0 returned 0 and removed the
\* subject's key: it is in none of the Maps, has no TTL entry and is not returned by
\* keys('concurrency:*').
C11_ReleaseToZeroRemovesKey ==
    (last.op = "decr" /\ (last.n = 0 \/ getConcurrency(this, last.key, now).ret = 0))
        => (last.n = 0 /\ Removed(this, concurrencyKey(last.key), now))

\* a release of the last live lease: the key had members and a TTL entry before
C11_Witness ==
    /\ last.op = "decr"
    /\ last.n = 0
    /\ Has(pre.db.zsets, concurrencyKey(last.key))
    /\ Has(pre.db.zsets[concurrencyKey(last.key)], last.id)
    /\ pre.db.zsets[concurrencyKey(last.key)][last.id] > now
    /\ Has(pre.db.ttls, concurrencyKey(last.key))
    /\ concurrencyKey(last.key) \in keys(pre.db, "concurrency:*", now).ret

LeaseOps == {"incr", "refresh", "decr", "get"}

\* C12: after a lease operation (acquire, renew, release, getCount) completes, no subject
\* has a sorted set with zero members, and a subject whose getConcurrency returned 0
\* has no sorted set and is not returned by keys().
C12_NoEmptySet ==
    last.op \in LeaseOps =>
        \A s \in Subjects :
            /\ Has(zsets, concurrencyKey(s)) => zsets[concurrencyKey(s)] # EmptyMap
            /\ (last.op = "get" /\ last.key = s /\ last.n = 0)
                   => concurrencyKey(s) \notin keys(this, "*", now).ret
\* C13: incrConcurrency and incrConsoleAccountConcurrency called with an empty requestId
\* fail with an error and leave every Map as it was: nothing added, swept or given a TTL.
C13_EmptyIdChangesNothing ==
    (last.op \in {"incr", "incrConsole"} /\ last.id = EmptyId)
        => (last.err /\ this = pre.db)

\* a rejected console acquire on a subject that had an expired entry to sweep
C13_Witness ==
    /\ last.op = "incrConsole"
    /\ last.id = EmptyId
    /\ last.err
    /\ Has(zsets, concurrencyKey(last.key))
    /\ \E m \in DOMAIN zsets[concurrencyKey(last.key)] :
           zsets[concurrencyKey(last.key)][m] <= now
    /\ Has(zsets, concurrencyKey("k1"))
    /\ \E m \in DOMAIN zsets[concurrencyKey("k1")] : zsets[concurrencyKey("k1")][m] <= now

\* C14: while the client is not connected, incrConcurrency fails with an error instead
\* of returning a count.
C14_FailsWhenUnavailable ==
    (last.op = "incr" /\ ~isConnected) => last.err
\* ---- sticky sessions
FullTtlMs == Seconds(stickyTtlHoursOf(config) * 60 * 60)

C16_LazyRenewal ==
    LET key == stickyKey(last.key)
        remaining == ttlOfKey(pre.db, key, now).ret
    IN (last.op = "extendSession" /\ config.renewalThresholdMinutes > 0 /\ remaining > 0)
          => /\ last.ok
             /\ this = IF remaining >= config.renewalThresholdMinutes * 60 THEN pre.db
                        ELSE [pre.db EXCEPT !.ttls = Put(@, key, now + FullTtlMs)]

\* a renewal that moved the expiry of a mapping about to run out
C16_Witness ==
    /\ last.op = "extendSession"
    /\ last.ok
    /\ Has(pre.db.ttls, stickyKey(last.key))
    /\ pre.db.ttls[stickyKey(last.key)] > now
    /\ ttls[stickyKey(last.key)] = now + FullTtlMs
    /\ ttls # pre.db.ttls

\* C17 (as claimed): extendSessionAccountMappingTTL returns false whenever the mapping is
\* absent or its TTL has elapsed, for every renewal threshold, and never creates or
\* revives a mapping.
C17_AbsentReturnsFalse ==
    (last.op = "extendSession" /\ valueOf(pre.db, stickyKey(last.key), now) = Null)
        => (~last.ok /\ valueOf(this, stickyKey(last.key), now) = Null)

\* C17 (amended): on an absent or expired mapping extendSessionAccountMappingTTL returns
\* false when the renewal threshold is > 0 and true when it is 0, and under every
\* threshold it writes nothing, so the mapping stays absent.
C17_AbsentReturnsFalseUnlessDisabled ==
    (last.op = "extendSession" /\ valueOf(pre.db, stickyKey(last.key), now) = Null)
        => /\ last.ok = (config.renewalThresholdMinutes = 0)
           /\ this = pre.db
           /\ valueOf(this, stickyKey(last.key), now) = Null

\* a refused renewal of a mapping that expired and was not yet purged
C17_Witness ==
    /\ last.op = "extendSession"
    /\ ~last.ok
    /\ config.renewalThresholdMinutes > 0
    /\ Has(pre.db.store, stickyKey(last.key))
    /\ Has(pre.db.ttls, stickyKey(last.key))
    /\ pre.db.ttls[stickyKey(last.key)] <= now
\* ---- usage meter
\* a counter of a hash as a number, 0 when the bucket or the field is missing
fieldOf(t, key, field) ==
    IF Has(t.hashes, key) /\ Has(t.hashes[key], field) THEN parseIntOr0(t.hashes[key][field])
    ELSE 0

\* C18 (as claimed): for every day on which incrementTokenUsage was called, the daily
\* bucket's tokens field is the sum of (input + output) over the calls of that day and
\* its allTokens field the sum of (input + output + cacheCreate + cacheRead); calls on
\* different days write different buckets.
C18_DailyAdditive ==
    \A k \in KeyIds : \A d \in DOMAIN ledger.day :
        /\ fieldOf(this, dailyKey(config, k, ledger.day[d].at), "tokens") = ledger.day[d].core
        /\ fieldOf(this, dailyKey(config, k, ledger.day[d].at), "allTokens") = ledger.day[d].all
        /\ \A e \in DOMAIN ledger.day :
              e # d => dailyKey(config, k, ledger.day[e].at) # dailyKey(config, k, ledger.day[d].at)

\* C18 (amended): the same sums, in which a call with neither input nor output tokens
\* counts its tokens argument as output.
C18_DailyAdditiveWithFallback ==
    \A k \in KeyIds : \A d \in DOMAIN ledger.day :
        /\ Has(hashes, dailyKey(config, k, ledger.day[d].at))
        /\ fieldOf(this, dailyKey(config, k, ledger.day[d].at), "tokens")
              = ledger.day[d].coreFinal
        /\ fieldOf(this, dailyKey(config, k, ledger.day[d].at), "allTokens")
              = ledger.day[d].allFinal
        /\ fieldOf(this, dailyKey(config, k, ledger.day[d].at), "requests") = ledger.day[d].n
        /\ \A e \in DOMAIN ledger.day :
              e # d => dailyKey(config, k, ledger.day[e].at) # dailyKey(config, k, ledger.day[d].at)

\* two calls on one day, then a call after the day boundary
C18_Witness ==
    /\ last.op = "usage"
    /\ Cardinality(DOMAIN ledger.day) = 2
    /\ \E d \in DOMAIN ledger.day :
          /\ d < DayOf(now)
          /\ ledger.day[d].n = 2
          /\ ledger.day[d].coreFinal > ledger.day[d].core
          /\ ledger.day[d].core > 0

\* the TTL a bucket holds, NullScore when it has none
ttlSetAt(t, key) == IF Has(t.ttls, key) THEN t.ttls[key] ELSE NullScore

\* C19: after an incrementTokenUsage call each non-total bucket it wrote has a TTL:
\* 7 days for the hourly bucket, 32 days for the daily buckets (the key's, the model's
\* and the key's per-model one), 365 days for the monthly bucket and twice the metrics
\* window for the per-minute bucket; the lifetime-total bucket has none.
C19_BucketsCarryTtl ==
    (last.op = "usage") =>
        /\ ttlSetAt(this, hourlyKey(config, last.key, now)) = now + Seconds(86400 * 7)
        /\ ttlSetAt(this, dailyKey(config, last.key, now)) = now + Seconds(86400 * 32)
        /\ ttlSetAt(this, monthlyKey(config, last.key, now)) = now + Seconds(86400 * 365)
        /\ ttlSetAt(this, systemMinuteKeyOf(now)) = now + Seconds(config.metricsWindow * 60 * 2)
        /\ ttlSetAt(this, modelDailyKey(config, last.id, now)) = now + Seconds(86400 * 32)
        /\ ttlSetAt(this, keyModelDailyKey(config, last.key, last.id, now))
              = now + Seconds(86400 * 32)
        /\ ttlSetAt(this, usageKey(last.key)) = NullScore
\* C20: with non-negative amounts no stored usage or cost counter is ever lower than a
\* value it held earlier while its bucket exists, under any interleaving of the recording
\* calls.
C20_CountersNeverDecrease ==
    [][/\ \A k \in DOMAIN store \cap DOMAIN store' :
             globMatch("usage:cost:*", k) => parseIntOr0(store'[k]) >= parseIntOr0(store[k])
       /\ \A k \in DOMAIN hashes \cap DOMAIN hashes' :
             \A f \in DOMAIN hashes[k] \cap DOMAIN hashes'[k] :
                parseIntOr0(hashes'[k][f]) >= parseIntOr0(hashes[k][f])]_vars
\* ============================================================= cost claims
\* the amounts of the recorded calls whose index is in S, added up from the i-th on
RECURSIVE spentWhere(_, _)
spentWhere(i, S) ==
    IF i > Len(ledger.cost) THEN 0
    ELSE (IF i \in S THEN ledger.cost[i].amount ELSE 0) + spentWhere(i + 1, S)

\* the hour, the day and the month of the configured timezone an instant falls in
HourOf(instant) == (instant + Seconds(timezoneOffsetOf(config) * 3600)) \div Seconds(3600)

MonthOf(instant) ==
    LET f == utcFields(getDateInTimezone(config, instant)) IN f.year * 12 + f.month

SameHour(at) == HourOf(at) = HourOf(now)
SameDay(at) == DayOf(at) = DayOf(now)
SameMonth(at) == MonthOf(at) = MonthOf(now)

\* the recorded calls that fell in the current hour, day and month
ThisHour == {i \in 1..Len(ledger.cost) : SameHour(ledger.cost[i].at)}
ThisDay == {i \in 1..Len(ledger.cost) : SameDay(ledger.cost[i].at)}
ThisMonth == {i \in 1..Len(ledger.cost) : SameMonth(ledger.cost[i].at)}
Ever == 1..Len(ledger.cost)

\* C21: after non-overlapping incrementDailyCost calls, getCostStats returns for the
\* current hour, day and month and for the total the sum of the amounts recorded in
\* that bucket (all four are the sum of all amounts when every call fell in the current
\* hour), and 0 for a bucket nothing was recorded in.
C21_CostStatsAreSums ==
    last.op = "coststats" =>
        reply = [daily |-> spentWhere(1, ThisDay), monthly |-> spentWhere(1, ThisMonth),
                 hourly |-> spentWhere(1, ThisHour), total |-> spentWhere(1, Ever)]

\* two calls in one hour bucket were summed, and an hour later the hourly figure is 0
\* while the daily figure still is their sum
C21_Witness ==
    /\ last.op = "coststats"
    /\ Len(ledger.cost) = 2
    /\ ledger.cost[1].amount # ledger.cost[2].amount
    /\ HourOf(ledger.cost[1].at) = HourOf(ledger.cost[2].at)
    /\ ThisHour = {}
    /\ ThisDay = {1, 2}
    /\ reply.daily = ledger.cost[1].amount + ledger.cost[2].amount
    /\ reply.hourly = 0

\* C22: after every incrementDailyCost call, the first write to a bucket included, the
\* daily, monthly and hourly cost keys the call wrote carry a TTL.
C22_CostBucketsCarryTtl ==
    last.op = "cost" =>
        \A i \in 1..3 : Has(ttls, costKeys(config, last.key, now)[i])

\* ============================================================ stats claims
Metrics == {"tokens", "inputTokens", "outputTokens", "cacheCreateTokens", "cacheReadTokens",
            "allTokens", "requests"}

\* the total-prefixed name of a metric
TotalName(metric) ==
    CASE metric = "tokens" -> "totalTokens"
      [] metric = "inputTokens" -> "totalInputTokens"
      [] metric = "outputTokens" -> "totalOutputTokens"
      [] metric = "cacheCreateTokens" -> "totalCacheCreateTokens"
      [] metric = "cacheReadTokens" -> "totalCacheReadTokens"
      [] metric = "allTokens" -> "totalAllTokens"
      [] metric = "requests" -> "totalRequests"

\* the buckets getUsageStats(keyId) read at the instant of the call, as they were stored
StatsBuckets ==
    [total |-> usageKey(last.key), daily |-> dailyKey(config, last.key, pre.now),
     monthly |-> monthlyKey(config, last.key, pre.now)]

storedBucket(b) == hgetall(pre.db, StatsBuckets[b], pre.now).ret

\* no counter that had not expired was changed by the call
LiveCountersKept ==
    \A key \in DOMAIN pre.db.hashes :
        ~_isExpired(pre.db, key, pre.now) =>
            Has(hashes, key) /\ hashes[key] = pre.db.hashes[key]

\* C23: getUsageStats reports 0 for every metric of a missing total, daily or monthly
\* bucket, reports for each metric the value stored under its total-prefixed name or
\* under its legacy name, never the sum of both, and changes no stored counter.
C23_EachMetricFromItsField ==
    last.op = "stats" =>
        /\ \A b \in {"total", "daily", "monthly"}, m \in Metrics :
              /\ storedBucket(b) = EmptyMap => reply[b][m] = 0
              /\ storedBucket(b) # EmptyMap =>
                    reply[b][m] \in {fieldOr0(storedBucket(b), TotalName(m)),
                                     fieldOr0(storedBucket(b), m)}
        /\ LiveCountersKept

\* the metrics that are reported from their own pair of field names
OwnFieldMetrics == Metrics \ {"tokens", "allTokens"}

\* C23 (amended): a missing bucket reports 0 for every metric; inputTokens,
\* outputTokens, cacheCreateTokens, cacheReadTokens and requests are the value under the
\* total-prefixed name when it is not 0, else the value under the legacy name; tokens
\* and allTokens both are the value stored for allTokens under one of its two names,
\* else the sum of the four reported token metrics; no counter is changed.
C23_MetricsWithAllTokens ==
    last.op = "stats" =>
        /\ \A b \in {"total", "daily", "monthly"} :
              LET data == storedBucket(b)
                  all == IF fieldOr0(data, "totalAllTokens") # 0
                         THEN fieldOr0(data, "totalAllTokens") ELSE fieldOr0(data, "allTokens")
              IN /\ data = EmptyMap => \A m \in Metrics : reply[b][m] = 0
                 /\ \A m \in OwnFieldMetrics :
                       reply[b][m] = IF fieldOr0(data, TotalName(m)) # 0
                                     THEN fieldOr0(data, TotalName(m)) ELSE fieldOr0(data, m)
                 /\ reply[b].allTokens =
                       IF all # 0 THEN all
                       ELSE reply[b].inputTokens + reply[b].outputTokens
                            + reply[b].cacheCreateTokens + reply[b].cacheReadTokens
                 /\ reply[b].tokens = reply[b].allTokens
        /\ LiveCountersKept

\* the total bucket holds requests under both names, the monthly bucket is there and
\* the daily bucket of the instant is missing
C23_Witness ==
    /\ last.op = "stats"
    /\ fieldOr0(storedBucket("total"), "totalRequests") # 0
    /\ fieldOr0(storedBucket("total"), "requests") # 0
    /\ reply.total.requests = fieldOr0(storedBucket("total"), "totalRequests")
    /\ storedBucket("monthly") # EmptyMap
    /\ storedBucket("daily") = EmptyMap

\* ========================================================= timezone claims
\* the calendar fields of an instant shifted by h hours
shiftedFields(instant, h) == utcFields(instant + Seconds(h * 3600))

\* the daily, monthly and hourly cost keys of the calendar date and hour of an instant
\* shifted by h hours
bucketsAt(keyId, instant, h) ==
    LET f == shiftedFields(instant, h)
        day == ToString(f.year) \o "-" \o padStart2(f.month) \o "-" \o padStart2(f.date)
    IN {"usage:cost:daily:" \o keyId \o ":" \o day,
        "usage:cost:monthly:" \o keyId \o ":" \o ToString(f.year) \o "-" \o padStart2(f.month),
        "usage:cost:hourly:" \o keyId \o ":" \o day \o ":" \o padStart2(f.hours)}

\* C24: under every configured timezoneOffset h, 0 and negative values included, a cost
\* recorded at instant t goes to the daily, monthly and hourly bucket of the calendar
\* date and hour of t + h hours; 8 is used only when no offset is configured.
C24_BucketOfShiftedInstant ==
    last.op = "cost" =>
        bucketsAt(last.key, now, IF config.timezoneOffsetSet THEN config.timezoneOffset ELSE 8)
            \subseteq DOMAIN store

\* ============================================================= list claims
\* Redis LRANGE on a list: negative indices count from the tail, a start before the head
\* is the head, a stop after the tail is the tail, and the range is empty when the
\* resolved start lies after the resolved stop
redisLrange(list, start, stop) ==
    LET length == Len(list)
        from == IF start < 0 THEN Max(0, length + start) ELSE start
        to == IF stop < 0 THEN length + stop ELSE Min(stop, length - 1)
    IN IF from > to THEN <<>> ELSE SubSeq(list, from + 1, to + 1)

listOf(t, key) == IF Has(t.lists, key) THEN t.lists[key] ELSE <<>>

\* C25: lrange returns the elements Redis LRANGE returns for every list length and all
\* start and stop, negative and out-of-range ones included, and ltrim keeps exactly
\* those elements.
C25_RangeAsRedis ==
    /\ last.op = "lrange" => reply = redisLrange(listOf(pre.db, last.key), last.arg, last.n)
    /\ last.op = "ltrim" =>
          listOf(this, last.key) = redisLrange(listOf(pre.db, last.key), last.arg, last.n)

\* ======================================================= start script claims
Did(step) == \E i \in 1..Len(boot.done) : boot.done[i] = step

\* C26: unless --skip-lint or -s is on the command line the start script runs ESLint
\* before it starts the application, and the application is started only after the
\* environment check, the loading of the environment and the lint step have finished.
C26_LintUnlessSkipped ==
    boot.pc \in {"start", "running"} =>
        /\ Did("checkEnvironment") /\ Did("loadEnvironment")
        /\ Did("lint") \/ Did("lintSkipped")
        /\ ("--skip-lint" \notin boot.args /\ "-s" \notin boot.args) => Did("lint")

\* ======================================================= concurrency claims
\* no lease that was granted can have run out yet
NoLeaseElapsed == \A l \in ConcLeaseChoices : now < Seconds(l)

\* C27: an entry added by incrConcurrency is not removed by a concurrent
\* decrConcurrency of another requestId: once the calls have completed, every requestId
\* that was acquired and not released is in the set and counted, and the acquire
\* returned at least 1.
C27_AcquireSurvivesRelease ==
    /\ last.op = "incr" => last.n >= 1
    /\ (AllIdle /\ NoLeaseElapsed) =>
          \A r \in HeldIds : \E s \in Subjects :
              /\ zscore(this, concurrencyKey(s), r).ret # NullScore
              /\ getConcurrency(this, s, now).ret >= 1

\* C28: incrConcurrency is indivisible: when all callers concurrently acquire distinct
\* requestIds on a subject with no live entries, the counts they are about to return
\* are 1, 2, ..., N in some order.
C28_CountsAreOneToN ==
    (/\ \A c \in Callers : calls[c].pc = "incrReturn"
     /\ \A c, d \in Callers : calls[c].key = calls[d].key
     /\ HeldIds = {}) =>
        {calls[c].count : c \in Callers} = 1..Cardinality(Callers)

\* C29: releaseAccountLock(lockKey, A) is indivisible: however it interleaves with
\* setAccountLock calls of other tokens, the value it deletes from lockKey is A.
C29_DeletesOnlyOwnValue ==
    (last.op = "unlock" /\ last.ok) =>
        (Has(pre.db.store, last.key) => pre.db.store[last.key] = last.id)

\* C30: concurrent cost increments lose no update: once the overlapping
\* incrementDailyCost calls on a key have all completed, the daily, monthly, hourly and
\* total cost counters hold the sum of the amounts recorded in their bucket.
C30_NoLostCostUpdate ==
    (\A c \in Callers : costs[c].pc = "idle") =>
        \A k \in KeyIds :
            getCostStats(this, config, k, now).ret =
                [daily |-> spentWhere(1, ThisDay), monthly |-> spentWhere(1, ThisMonth),
                 hourly |-> spentWhere(1, ThisHour), total |-> spentWhere(1, Ever)]

\* ====================================================== cleaner timing claims
\* the store as the TTL cleaner would leave it, were its timer to fire now
swept == ttlCleaner(this, now)

\* C31: lease results do not depend on when the TTL cleaner runs: whatever calls and
\* clock advances came before, every acquire, renew, release and count returns the
\* same value whether or not the cleaner fires right before it.
C31_CleanerTimingIrrelevant ==
    \A s \in Subjects, id \in RequestIds, l \in LeaseChoices :
        /\ incrConcurrency(this, s, id, l, now).ret = incrConcurrency(swept, s, id, l, now).ret
        /\ refreshConcurrencyLease(this, s, id, l, now).ret =
               refreshConcurrencyLease(swept, s, id, l, now).ret
        /\ decrConcurrency(this, s, id, now).ret = decrConcurrency(swept, s, id, now).ret
        /\ getConcurrency(this, s, now).ret = getConcurrency(swept, s, now).ret

\* =========================================================== pipeline claims
\* C32: the counter updates of one incrementTokenUsage call take effect as one unit: what
\* a getUsageStats that runs while the call is in flight reports for the total bucket
\* is what it would report before the call or what it would report after it, never a
\* mixture.
C32_UsageAppliedAsUnit ==
    \A c \in Callers :
        (calls[c].pc = "exec" /\ last.op = "stats") =>
            reply.total \in
                {getUsageStats(pre.db, config, calls[c].key, calls[c].now).ret.total,
                 getUsageStats(exec(pre.db, pipelineOf(c), 1, calls[c].now), config,
                               calls[c].key, calls[c].now).ret.total}

\* ====================================================== account usage claims
\* C33: after incrementAccountUsage has recorded requests for an account today,
\* getAccountUsageStats(accountId).daily reports the tokens, inputTokens, outputTokens,
\* allTokens and requests accumulated in the account's daily bucket for today.
C33_DailyReportsBucket ==
    (last.op = "acctStats" /\ Has(ledger.day, DayOf(now))) =>
        LET bucket == accountDailyKeyOf(config, last.key, now)
        IN /\ reply.daily.tokens = fieldOf(pre.db, bucket, "tokens")
           /\ reply.daily.inputTokens = fieldOf(pre.db, bucket, "inputTokens")
           /\ reply.daily.outputTokens = fieldOf(pre.db, bucket, "outputTokens")
           /\ reply.daily.allTokens = fieldOf(pre.db, bucket, "allTokens")
           /\ reply.daily.requests = fieldOf(pre.db, bucket, "requests")
           /\ reply.daily.requests = ledger.day[DayOf(now)].n

\* ============================================================== eval claims
\* a lease-renewal script: its text contains ZREMRANGEBYSCORE, ZSCORE, 'exists' and ZADD
IsRenewScript(script) ==
    /\ Contains(script, "ZREMRANGEBYSCORE")
    /\ Contains(script, "ZSCORE")
    /\ Contains(script, "exists")
    /\ Contains(script, "ZADD")

\* C34: eval called with a lease-renewal script renews as refreshConcurrencyLease does:
\* it returns what refreshConcurrencyLease returns on the same store, and when the
\* requestId is not in the set it returns 0 and adds nothing to the set.
C34_EvalRenewsOnly ==
    (last.op = "eval" /\ IsRenewScript(last.script)) =>
        /\ last.n = refreshConcurrencyLease(pre.db, last.key, last.id, last.arg, pre.now).ret
        /\ zscore(pre.db, concurrencyKey(last.key), last.id).ret = NullScore =>
              /\ last.n = 0
              /\ zscore(this, concurrencyKey(last.key), last.id).ret = NullScore

\* ============================================================= store claims
\* the key of the last call had a TTL that had elapsed when the call was made
Elapsed == _isExpired(pre.db, last.key, pre.now)

\* nothing can be read under the key
ReadsAbsent(t, key, tnow) ==
    /\ get(t, key, tnow).ret = Null
    /\ hgetall(t, key, tnow).ret = EmptyMap
    /\ lrange(t, key, 0, -1, tnow).ret = <<>>
    /\ zcard(t, key, tnow).ret = 0

\* C35: once a key's TTL has elapsed its old contents are never observed or built upon,
\* whether or not the cleaner has purged it: get, hget, hgetall, lrange, zcard, zscore,
\* ttl and keys report the key as absent, and hset, hincrby, lpush, zadd or expire on the
\* key do not bring back the old value, fields, elements or members.
C35_ExpiredKeyIsGone ==
    /\ last.op = "keys" => \A k \in reply : ~_isExpired(pre.db, k, pre.now)
    /\ (last.op \in {"get", "hget"} /\ Elapsed) => reply = Null
    /\ (last.op = "hgetall" /\ Elapsed) => reply = EmptyMap
    /\ (last.op = "lrange" /\ Elapsed) => reply = <<>>
    /\ (last.op = "zcard" /\ Elapsed) => reply = 0
    /\ (last.op = "zscore" /\ Elapsed) => reply = NullScore
    /\ (last.op = "ttl" /\ Elapsed) => reply = -2
    /\ (last.op = "hset" /\ Elapsed) => hashes[last.key] = last.val
    /\ (last.op = "hincrby" /\ Elapsed) => reply = last.n
    /\ (last.op = "lpush" /\ Elapsed) => lists[last.key] = last.val
    /\ (last.op = "zadd" /\ Elapsed) => DOMAIN zsets[last.key] = {last.id}
    /\ (last.op = "expire" /\ Elapsed) => (reply = 0 /\ ReadsAbsent(this, last.key, now))

\* C36: a value written to a key is readable once the write has returned, also when the
\* key had a TTL that elapsed earlier: the field written by hset is returned by hget and
\* hgetall, the elements written by lpush lead the list lrange returns, and the member
\* written by zadd is counted by zcard.
C36_WrittenValueReadable ==
    /\ last.op = "hset" =>
          \A f \in DOMAIN last.val :
              /\ hget(this, last.key, f, now).ret = last.val[f]
              /\ Has(hgetall(this, last.key, now).ret, f)
    /\ last.op = "lpush" =>
          LET list == lrange(this, last.key, 0, -1, now).ret
          IN Len(list) >= Len(last.val) /\ SubSeq(list, 1, Len(last.val)) = last.val
    /\ last.op = "zadd" => zcard(this, last.key, now).ret >= 1

\* the key holds a value of some type and no elapsed TTL
Exists(t, key, tnow) ==
    /\ ~_isExpired(t, key, tnow)
    /\ (Has(t.store, key) \/ Has(t.hashes, key) \/ Has(t.lists, key) \/ Has(t.zsets, key))

\* C37: del returns the number of the given keys that existed and were removed, whatever
\* their type: deleteSession returns 1 when the entry existed and 0 when no Map held
\* the key.
C37_DelCountsEveryType ==
    (last.op = "del" /\ ~Elapsed) =>
        reply = (IF Exists(pre.db, last.key, pre.now) THEN 1 ELSE 0)

\* ======================================================== re-acquire claims
\* the entries of the last call's subject whose lease had not run out before the call
LiveBefore ==
    {m \in DOMAIN zsetOf(pre.db, last.key) : zsetOf(pre.db, last.key)[m] > pre.now}

\* the last call acquired a requestId that held a live lease on the subject
Reacquired == last.op = "incr" /\ ~last.err /\ last.id \in LiveBefore

\* C38: acquiring a requestId that already holds a live lease on the subject does not
\* increase the count: the call returns the number of live entries there were, leaves
\* the other entries as they are and moves the entry's expiry to the new expiresAt, so
\* that one release of the requestId removes it entirely.
C38_ReacquireKeepsCount ==
    Reacquired =>
        /\ last.n = Cardinality(LiveBefore)
        /\ DOMAIN zsetOf(this, last.key) = LiveBefore
        /\ \A m \in LiveBefore \ {last.id} :
              zsetOf(this, last.key)[m] = zsetOf(pre.db, last.key)[m]
        /\ zsetOf(this, last.key)[last.id] = now + Seconds(leaseOf(last.arg))
        /\ LET released == decrConcurrency(this, last.key, last.id, now)
           IN /\ zscore(released.db, concurrencyKey(last.key), last.id).ret = NullScore
              /\ released.ret = last.n - 1

\* a requestId is acquired again next to another live entry, with a later expiry
C38_Witness ==
    /\ Reacquired
    /\ last.n = 2
    /\ zsetOf(this, last.key)[last.id] > zsetOf(pre.db, last.key)[last.id]
====
